---- MODULE Spec2Model ----
(***************************************************************************)
(* Shaliwood voice bot: the extraction-and-reconciliation pipeline.        *)
(*                                                                         *)
(*   - data_extractor.py  : WorkdayDataExtractor (parse, validate,         *)
(*                          normalise, fallback)                           *)
(*   - sheets.py          : GoogleSheetsManager.add_workday_summary        *)
(*   - data_manager.py    : DataManager.save_workday_data                  *)
(*   - voice_processor.py : VoiceProcessor.process_audio                   *)
(*   - cron_processor.py  : CronMessageProcessor, run_cron_processing      *)
(*                                                                         *)
(* Python strings are sequences of one-character strings, so that          *)
(* strptime/strftime are modelled by what they do to the text.  A word of  *)
(* free text (a Hebrew name, a sentence) is one opaque token.              *)
(***************************************************************************)
EXTENDS Integers, Sequences, FiniteSets, TLC

VARIABLES
    ex_in,          \* extractor: the call's inputs (transcript, reference
                    \*   date, outcome of the model call, datetime.now())
    ex_out,         \* extractor: which method ran and what it returned
    dm_built,       \* a DataManager has been constructed
    sheets_manager, \* DataManager.sheets_manager is not None
    sheet,          \* the spreadsheet: its rows, first row first
    save_log,       \* history: one entry per save_workday_data call
    dm_init,        \* history: what DataManager.__init__ met
    now,            \* the clock, in steps of twelve hours
    tg_pending,     \* Telegram: the updates the server holds, oldest first
    tg_next_id,     \* Telegram: the update_id the next message gets
    inst,           \* number of CronMessageProcessor instances built so far
    last_processed_update_id,   \* of the current CronMessageProcessor
    data_extractor, \* VoiceProcessor.data_extractor is not None
    run,            \* history: the last fetch_and_process_recent_messages
    hist,           \* history: one entry per process_audio call of a run
    vp_in,          \* pipeline: the inputs of a process_audio call
    vp_out,         \* pipeline: what process_audio returned and called
    fmt_in,         \* presenters: the record and the two store flags
    fmt_out,        \* presenters: what each presenter rendered
    live,           \* live bot: the voice-message handler's progress
    replies,        \* live bot: the replies sent to the chat, in order
    local,          \* local-file mode: the call and what it did
    writers         \* concurrent writers: each process's position inside
                    \*   add_workday_summary and the rows it has written

exVars == <<ex_in, ex_out>>

storeVars == <<dm_built, sheets_manager, sheet, save_log, dm_init>>

cronVars == <<now, tg_pending, tg_next_id, inst, last_processed_update_id,
              data_extractor, run, hist>>

appVars == <<vp_in, vp_out, fmt_in, fmt_out, live, replies, local>>

vars == <<exVars, storeVars, cronVars, appVars, writers>>

----------------------------------------------------------------------------
(* Python values: str, None, int (a JSON number).                          *)

Str(s) == [t |-> "str", s |-> s]

None == [t |-> "none", s |-> <<>>]

PyInt(s) == [t |-> "int", s |-> s]

EmptyStr == Str(<<>>)

\* Python truthiness of a value: '' and None and 0 are false.
Truthy(v) ==
    \/ v.t = "str" /\ v.s # <<>>
    \/ v.t = "int" /\ v.s # <<"0">>

\* A dict with no key.
EmptyDict == [k \in {} |-> None]

\* dict.get(key, default)
DictGet(d, key, default) == IF key \in DOMAIN d THEN d[key] ELSE default

\* The outcome of a call that may raise.
Raised == [raised |-> TRUE, val |-> EmptyDict]

Returned(v) == [raised |-> FALSE, val |-> v]

----------------------------------------------------------------------------
(* Text helpers.                                                           *)

DigitSeq == <<"0", "1", "2", "3", "4", "5", "6", "7", "8", "9">>

Digits == {DigitSeq[i] : i \in 1..10}

DigitVal(c) == (CHOOSE i \in 1..10 : DigitSeq[i] = c) - 1

DigitChar(n) == DigitSeq[n + 1]

AllDigits(s) == \A i \in 1..Len(s) : s[i] \in Digits

RECURSIVE NumVal(_)
NumVal(s) ==
    IF s = <<>> THEN 0
    ELSE NumVal(SubSeq(s, 1, Len(s) - 1)) * 10 + DigitVal(s[Len(s)])

\* str.split(sep) on one separator character.
RECURSIVE Split(_, _)
Split(s, sep) ==
    IF s = <<>> THEN << <<>> >>
    ELSE LET r == Split(Tail(s), sep)
         IN  IF Head(s) = sep
             THEN << <<>> >> \o r
             ELSE << <<Head(s)>> \o Head(r) >> \o Tail(r)

\* str.strip(): leading and trailing blanks removed.
RECURSIVE LStrip(_)
LStrip(s) ==
    IF s # <<>> /\ Head(s) = " " THEN LStrip(Tail(s)) ELSE s

RECURSIVE RStrip(_)
RStrip(s) ==
    IF s # <<>> /\ s[Len(s)] = " " THEN RStrip(SubSeq(s, 1, Len(s) - 1)) ELSE s

Strip(s) == RStrip(LStrip(s))

\* %02d and %04d
Pad2(n) == <<DigitChar(n \div 10), DigitChar(n % 10)>>

Pad4(n) ==
    <<DigitChar(n \div 1000), DigitChar((n \div 100) % 10),
      DigitChar((n \div 10) % 10), DigitChar(n % 10)>>

----------------------------------------------------------------------------
(* datetime: the proleptic Gregorian calendar as Python computes it.       *)

IsLeap(y) == (y % 4 = 0) /\ ((y % 100 # 0) \/ (y % 400 = 0))

DaysInMonth(y, m) ==
    IF m = 2 THEN (IF IsLeap(y) THEN 29 ELSE 28)
    ELSE IF m \in {4, 6, 9, 11} THEN 30 ELSE 31

RECURSIVE DaysBeforeMonth(_, _)
DaysBeforeMonth(y, m) ==
    IF m = 1 THEN 0 ELSE DaysBeforeMonth(y, m - 1) + DaysInMonth(y, m - 1)

\* date.toordinal(): 01/01/0001 is day 1.
ToOrdinal(dt) ==
    LET y1 == dt.y - 1
    IN  y1 * 365 + (y1 \div 4) - (y1 \div 100) + (y1 \div 400)
          + DaysBeforeMonth(dt.y, dt.m) + dt.d

\* date.weekday(): Monday is 0, Sunday is 6.
Weekday(dt) == (ToOrdinal(dt) + 6) % 7

NoDate == [ok |-> FALSE, y |-> 0, m |-> 0, d |-> 0]

\* datetime(y, m, d): ValueError when the day does not exist.
MkDate(y, m, d) ==
    IF y >= 1 /\ m \in 1..12 /\ d >= 1 /\ d <= DaysInMonth(y, m)
    THEN [ok |-> TRUE, y |-> y, m |-> m, d |-> d]
    ELSE NoDate

\* strftime('%d/%m/%Y'), for the four-digit years the model uses.
StrftimeDMY(dt) == Pad2(dt.d) \o <<"/">> \o Pad2(dt.m) \o <<"/">> \o Pad4(dt.y)

----------------------------------------------------------------------------
(* datetime.strptime, directive by directive (the regular expressions of   *)
(* Python's _strptime: %d 1-31, %m 1-12, %Y four digits, %y two digits,    *)
(* %H 0-23, %I 1-12, %M 0-59, %S 0-59, one or two digits each).  A format's *)
(* literal separators cut the text into its parts.                         *)

Short(p) == Len(p) \in {1, 2} /\ AllDigits(p)

Match_d(p) == Short(p) /\ NumVal(p) \in 1..31

Match_m(p) == Short(p) /\ NumVal(p) \in 1..12

Match_Y(p) == Len(p) = 4 /\ AllDigits(p)

Match_y(p) == Len(p) = 2 /\ AllDigits(p)

Match_H(p) == Short(p) /\ NumVal(p) \in 0..23

Match_I(p) == Short(p) /\ NumVal(p) \in 1..12

Match_M(p) == Short(p) /\ NumVal(p) \in 0..59

\* %S matches up to 61, and datetime() then refuses a second above 59.
Match_S(p) == Short(p) /\ NumVal(p) \in 0..59

\* %y: 69-99 are 1969-1999, 00-68 are 2000-2068.
Year_y(p) == IF NumVal(p) >= 69 THEN 1900 + NumVal(p) ELSE 2000 + NumVal(p)

\* The date formats of _format_date, in the order it tries them.
date_formats ==
    << [sep |-> "/", order |-> "dmY"],     \* %d/%m/%Y
       [sep |-> "-", order |-> "dmY"],     \* %d-%m-%Y
       [sep |-> "-", order |-> "Ymd"],     \* %Y-%m-%d
       [sep |-> ".", order |-> "dmY"],     \* %d.%m.%Y
       [sep |-> "/", order |-> "dmy"],     \* %d/%m/%y
       [sep |-> "-", order |-> "dmy"],     \* %d-%m-%y
       [sep |-> "-", order |-> "ymd"] >>   \* %y-%m-%d

\* datetime.strptime(s, fmt) for a date format: NoDate stands for ValueError.
StrptimeDate(s, fmt) ==
    LET p == Split(s, fmt.sep)
    IN  IF Len(p) # 3 THEN NoDate
        ELSE LET dayFirst == fmt.order \in {"dmY", "dmy"}
                 longYear == fmt.order \in {"dmY", "Ymd"}
                 dp == IF dayFirst THEN p[1] ELSE p[3]
                 yp == IF dayFirst THEN p[3] ELSE p[1]
                 yOk == IF longYear THEN Match_Y(yp) ELSE Match_y(yp)
             IN  IF Match_d(dp) /\ Match_m(p[2]) /\ yOk
                 THEN MkDate(IF longYear THEN NumVal(yp) ELSE Year_y(yp),
                             NumVal(p[2]), NumVal(dp))
                 ELSE NoDate

\* The time formats of _format_time, in the order it tries them.
time_formats ==
    << [sep |-> ":", secs |-> FALSE, ampm |-> FALSE],   \* %H:%M
       [sep |-> ":", secs |-> TRUE,  ampm |-> FALSE],   \* %H:%M:%S
       [sep |-> ":", secs |-> FALSE, ampm |-> TRUE],    \* %I:%M %p
       [sep |-> ":", secs |-> TRUE,  ampm |-> TRUE],    \* %I:%M:%S %p
       [sep |-> ".", secs |-> FALSE, ampm |-> FALSE],   \* %H.%M
       [sep |-> ".", secs |-> FALSE, ampm |-> TRUE] >>  \* %I.%M %p

NoTime == [ok |-> FALSE, h |-> 0, mi |-> 0]

IsAM(p) == p \in {<<"A", "M">>, <<"a", "m">>}

IsPM(p) == p \in {<<"P", "M">>, <<"p", "m">>}

\* datetime.strptime(s, fmt) for a time format: NoTime stands for ValueError.
StrptimeTime(s, fmt) ==
    LET w  == Split(s, " ")
        okW == IF fmt.ampm THEN Len(w) = 2 /\ (IsAM(w[2]) \/ IsPM(w[2]))
                           ELSE Len(w) = 1
    IN  IF ~okW THEN NoTime
        ELSE LET p == Split(w[1], fmt.sep)
                 n == IF fmt.secs THEN 3 ELSE 2
             IN  IF Len(p) # n THEN NoTime
                 ELSE IF ~(IF fmt.ampm THEN Match_I(p[1]) ELSE Match_H(p[1]))
                      THEN NoTime
                 ELSE IF ~Match_M(p[2]) THEN NoTime
                 ELSE IF fmt.secs /\ ~Match_S(p[3]) THEN NoTime
                 ELSE [ok |-> TRUE,
                       h  |-> IF fmt.ampm
                              THEN (NumVal(p[1]) % 12)
                                     + (IF IsPM(w[2]) THEN 12 ELSE 0)
                              ELSE NumVal(p[1]),
                       mi |-> NumVal(p[2])]

\* strftime('%H:%M')
StrftimeHM(tm) == Pad2(tm.h) \o <<":">> \o Pad2(tm.mi)

----------------------------------------------------------------------------
(* WorkdayDataExtractor (data_extractor.py).                               *)

expected_fields ==
    {"day", "date", "start_time", "end_time", "project_name",
     "sub_project", "work_description", "workers", "additional_notes"}

\* hebrew_days, indexed by weekday() + 1 (Monday first).
hebrew_days ==
    << Str(<<"sheni">>), Str(<<"shlishi">>), Str(<<"revii">>),
       Str(<<"hamishi">>), Str(<<"shishi">>), Str(<<"shabbat">>),
       Str(<<"rishon">>) >>

\* The fixed manual-review marker of the fallback record.
ManualReviewNote == Str(<<"needs-manual-review">>)

\* The first format of fmts, from index i on, that parses s (0: none does).
RECURSIVE FirstDateFormat(_, _)
FirstDateFormat(s, i) ==
    IF i > Len(date_formats) THEN 0
    ELSE IF StrptimeDate(s, date_formats[i]).ok THEN i
    ELSE FirstDateFormat(s, i + 1)

\* _format_date: a value that is no str makes strptime raise TypeError, which
\* the outer handler turns into the value itself.
_format_date(date_str) ==
    IF date_str.t # "str" THEN date_str
    ELSE LET i == FirstDateFormat(date_str.s, 1)
         IN  IF i = 0 THEN date_str
             ELSE Str(StrftimeDMY(StrptimeDate(date_str.s, date_formats[i])))

RECURSIVE FirstTimeFormat(_, _)
FirstTimeFormat(s, i) ==
    IF i > Len(time_formats) THEN 0
    ELSE IF StrptimeTime(s, time_formats[i]).ok THEN i
    ELSE FirstTimeFormat(s, i + 1)

_format_time_unpadded(time_str) ==
    IF time_str.t # "str" THEN time_str
    ELSE LET i == FirstTimeFormat(time_str.s, 1)
         IN  IF i = 0 THEN time_str
             ELSE LET hm == StrftimeHM(StrptimeTime(time_str.s, time_formats[i]))
                  IN  Str(IF Head(hm) = "0" THEN Tail(hm) ELSE hm)

\* _format_time: the first of time_formats that parses the text gives
\* strftime('%H:%M'); a text none parses, or a value that is no str, stays.
_format_time(time_str) ==
    IF time_str.t # "str" THEN time_str
    ELSE LET i == FirstTimeFormat(time_str.s, 1)
         IN  IF i = 0 THEN time_str
             ELSE Str(StrftimeHM(StrptimeTime(time_str.s, time_formats[i])))

(* json.loads results.  A JSON text is written as the value it denotes; a  *)
(* text that denotes none is "garbage", the empty text is "empty".         *)
JsonObj(o) == [j |-> "obj", o |-> o]

JsonOther(kind) == [j |-> kind, o |-> EmptyDict]

ParseFailed == [raised |-> TRUE, val |-> JsonOther("null")]

\* _parse_json_response: a leading ```json and a trailing ``` are cut; a
\* leading ``` without "json" stays and makes json.loads fail.
_parse_json_response(content) ==
    IF content.open = "bare" THEN ParseFailed
    ELSE IF content.body.j \in {"garbage", "empty"} THEN ParseFailed
    ELSE [raised |-> FALSE, val |-> content.body]

DeriveDay_sunday_first(cleaned) ==
    IF cleaned["date"].t # "str" THEN Raised
    ELSE LET date_obj == StrptimeDate(cleaned["date"].s, date_formats[1])
         IN  IF ~date_obj.ok THEN Raised
             ELSE Returned([cleaned EXCEPT !["day"] =
                              hebrew_days[((Weekday(date_obj) + 1) % 7) + 1]])

DeriveDay_keeps_record_on_failure(cleaned) ==
    IF cleaned["date"].t # "str" THEN Raised
    ELSE LET date_obj == StrptimeDate(cleaned["date"].s, date_formats[1])
         IN  IF ~date_obj.ok THEN Returned(cleaned)
             ELSE Returned([cleaned EXCEPT
                              !["day"] = hebrew_days[Weekday(date_obj) + 1]])

\* Lines 229-232: datetime.strptime(cleaned_data['date'], '%d/%m/%Y') raises
\* TypeError on a value that is no str and ValueError on a text the format
\* does not match; otherwise day is hebrew_days[date_obj.weekday()].
DeriveDay(cleaned) ==
    IF cleaned["date"].t # "str" THEN Raised
    ELSE LET date_obj == StrptimeDate(cleaned["date"].s, date_formats[1])
         IN  IF ~date_obj.ok THEN Raised
             ELSE Returned([cleaned EXCEPT
                              !["day"] = hebrew_days[Weekday(date_obj) + 1]])

\* _validate_and_clean_data: data.get on a value that is no dict raises
\* AttributeError.
_validate_and_clean_data(data) ==
    IF data.j # "obj" THEN Raised
    ELSE LET c0 == [f \in expected_fields |-> DictGet(data.o, f, EmptyStr)]
             c1 == [c0 EXCEPT
                      !["date"] = IF Truthy(@) THEN _format_date(@) ELSE @,
                      !["start_time"] = IF Truthy(@) THEN _format_time(@) ELSE @,
                      !["end_time"] = IF Truthy(@) THEN _format_time(@) ELSE @]
         IN  DeriveDay(c1)

\* _create_fallback_data, with datetime.now() passed in as today.
_create_fallback_data(transcribed_text, today) ==
    [f \in expected_fields |->
        CASE f = "date" -> Str(StrftimeDMY(today))
          [] f = "work_description" -> transcribed_text
          [] f = "additional_notes" -> ManualReviewNote
          [] OTHER -> EmptyStr]

\* Whether the try block of extract_workday_data raises, given the outcome
\* llm of the chat-completion call.
ExtractionFails(transcribed_text, llm) ==
    \/ ~Truthy(transcribed_text)
    \/ transcribed_text.t # "str"
    \/ Strip(transcribed_text.s) = <<>>
    \/ llm.kind # "content"
    \/ _parse_json_response(llm).raised
    \/ _validate_and_clean_data(_parse_json_response(llm).val).raised

extract_workday_data_narrow_except(transcribed_text, reference_date, llm, today) ==
    IF ~ExtractionFails(transcribed_text, llm)
    THEN _validate_and_clean_data(_parse_json_response(llm).val)
    ELSE IF /\ Truthy(transcribed_text) /\ transcribed_text.t = "str"
            /\ Strip(transcribed_text.s) # <<>>
            /\ llm.kind = "content"
            /\ ~_parse_json_response(llm).raised
         THEN Raised
         ELSE Returned(_create_fallback_data(transcribed_text, today))

\* extract_workday_data: every exception of the try block is caught and the
\* fallback record returned.  reference_date only enters the prompt.
extract_workday_data(transcribed_text, reference_date, llm, today) ==
    IF ExtractionFails(transcribed_text, llm)
    THEN Returned(_create_fallback_data(transcribed_text, today))
    ELSE _validate_and_clean_data(_parse_json_response(llm).val)


----------------------------------------------------------------------------
(* Inputs of the extractor: the texts a model reply can carry.             *)

DateInputs ==
    { Str(<<"2", "1", "/", "0", "6", "/", "2", "0", "2", "5">>),
      Str(<<"2", "1", "-", "0", "6", "-", "2", "0", "2", "5">>),
      Str(<<"2", "0", "2", "5", "-", "0", "6", "-", "2", "1">>),
      Str(<<"2", "1", ".", "0", "6", ".", "2", "0", "2", "5">>),
      Str(<<"2", "1", "/", "0", "6", "/", "2", "5">>),
      Str(<<"2", "1", "-", "0", "6", "-", "2", "5">>),
      Str(<<"2", "5", "-", "0", "6", "-", "2", "1">>),
      Str(<<"1", "/", "6", "/", "2", "0", "2", "5">>),
      Str(<<"3", "1", "/", "0", "2", "/", "2", "0", "2", "5">>),
      Str(<<"2", "9", "/", "0", "2", "/", "2", "0", "2", "4">>),
      EmptyStr, Str(<<"etmol">>), None, PyInt(<<"5">>) }

TimeInputs ==
    { Str(<<"0", "8", ":", "0", "0">>),
      Str(<<"8", ":", "0", "0">>),
      Str(<<"1", "6", ":", "3", "0", ":", "1", "5">>),
      Str(<<"0", "4", ":", "0", "0", " ", "P", "M">>),
      Str(<<"1", "2", ":", "1", "5", " ", "a", "m">>),
      Str(<<"8", ".", "3", "0">>),
      Str(<<"2", "5", ":", "0", "0">>),
      EmptyStr, Str(<<"boker">>), None, PyInt(<<"8">>) }

\* A reply object with every key the prompt asks for.
FullObject(date, start_time) ==
    [f \in expected_fields \ {"day"} |->
        CASE f = "date" -> date
          [] f = "start_time" -> start_time
          [] f = "end_time" -> Str(<<"1", "6", ":", "0", "0">>)
          [] f = "project_name" -> Str(<<"hagesher">>)
          [] f = "workers" -> Str(<<"itay">>)
          [] f = "work_description" -> Str(<<"gag">>)
          [] OTHER -> EmptyStr]

\* The same with a weekday the model proposed.
ObjectWithDay(date, start_time) ==
    [f \in expected_fields |->
        IF f = "day" THEN Str(<<"yom">>) ELSE FullObject(date, start_time)[f]]

\* A reply that omits keys.
SparseObject(date, start_time) ==
    [f \in {"date", "start_time"} |-> FullObject(date, start_time)[f]]

\* A reply that carries JSON null for two keys.
ObjectWithNulls(date, start_time) ==
    [f \in expected_fields \ {"day"} |->
        IF f \in {"project_name", "workers"} THEN None
        ELSE FullObject(date, start_time)[f]]

ReplyObjects ==
    UNION { { FullObject(d, t), ObjectWithDay(d, t),
              SparseObject(d, t), ObjectWithNulls(d, t) } :
            d \in DateInputs, t \in TimeInputs }

NonObjectBodies ==
    { JsonOther(k) : k \in {"list", "null", "num", "str", "garbage", "empty"} }

Content(open, close, body) ==
    [kind |-> "content", open |-> open, close |-> close, body |-> body]

\* The chat-completion call raised.
LlmRaises == [kind |-> "raise", open |-> "none", close |-> FALSE,
              body |-> JsonOther("empty")]

\* The call returned a message whose content is None.
LlmNoContent == [kind |-> "nocontent", open |-> "none", close |-> FALSE,
                 body |-> JsonOther("empty")]

FencedBodies ==
    { JsonObj(FullObject(Str(<<"2", "1", "/", "0", "6", "/", "2", "0", "2", "5">>), Str(<<"0", "8", ":", "0", "0">>))),
      JsonOther("garbage") }

LlmOutcomes ==
    {LlmRaises, LlmNoContent}
      \cup { Content("none", FALSE, JsonObj(o)) : o \in ReplyObjects }
      \cup { Content("none", FALSE, b) : b \in NonObjectBodies }
      \cup { Content(op, cl, b) :
               op \in {"none", "json", "bare"}, cl \in BOOLEAN, b \in FencedBodies }

Transcripts ==
    { Str(<<"avadnu", " ", "bagesher">>), EmptyStr, Str(<<" ", " ">>), None }

\* datetime.now(), as a date.
Todays ==
    { [ok |-> TRUE, y |-> 2025, m |-> 6, d |-> 22],
      [ok |-> TRUE, y |-> 2024, m |-> 2, d |-> 29] }

ReferenceDates == { None, Str(<<"2", "1", "/", "0", "6", "/", "2", "0", "2", "5">>) }

----------------------------------------------------------------------------
(* The batch job's state before any CronMessageProcessor exists.           *)

NoStats ==
    [total_messages |-> 0, voice_messages |-> 0, processed_voice |-> 0,
     errors |-> 0, ended |-> FALSE]

NoRun ==
    [n |-> 0, inst |-> 0, start_offset |-> 0, offset |-> 0, fetch |-> "none",
     page |-> <<>>, updates |-> <<>>, outcomes |-> <<>>, stats |-> NoStats,
     temp |-> [created |-> 0, left |-> 0]]

\* No DataManager has been constructed.
NoDataManager == [disable_sheets |-> FALSE, auth_ok |-> FALSE, headers_raised |-> FALSE]

\* Nothing was called.
NoCall == [op |-> "none"]

\* The live bot handles no message and has sent nothing; the pipeline, the
\* presenters and the local-file mode were not called.
AppIdle ==
    /\ vp_in = NoCall
    /\ vp_out = NoCall
    /\ fmt_in = NoCall
    /\ fmt_out = NoCall
    /\ live = NoCall
    /\ replies = <<>>
    /\ local = NoCall

CronIdle ==
    /\ now = 0
    /\ tg_pending = <<>>
    /\ tg_next_id = 1
    /\ inst = 0
    /\ last_processed_update_id = 0
    /\ data_extractor = FALSE
    /\ run = NoRun
    /\ hist = <<>>

----------------------------------------------------------------------------
(* The extractor on its own: one call per behaviour, inputs drawn by Init. *)

NotCalled == [op |-> "none", raised |-> FALSE, val |-> EmptyDict]

ExtractInit ==
    /\ writers = <<>>
    /\ ex_in \in [transcribed_text : Transcripts,
                  reference_date : ReferenceDates,
                  llm : LlmOutcomes,
                  today : Todays]
    /\ ex_out = NotCalled
    /\ dm_built = FALSE
    /\ sheets_manager = FALSE
    /\ sheet = <<>>
    /\ save_log = <<>>
    /\ dm_init = NoDataManager
    /\ CronIdle
    /\ AppIdle

\* A call of extract_workday_data.
ExtractWorkdayData ==
    /\ ex_out.op = "none"
    /\ LET r == extract_workday_data(ex_in.transcribed_text, ex_in.reference_date,
                                     ex_in.llm, ex_in.today)
       IN  ex_out' = [op |-> "extract", raised |-> r.raised, val |-> r.val]
    /\ UNCHANGED <<appVars, ex_in, storeVars, cronVars, writers>>

\* A direct call of _validate_and_clean_data on a parsed reply.
ValidateAndCleanData ==
    /\ ex_out.op = "none"
    /\ ex_in.llm.kind = "content"
    /\ ex_in.llm.body.j = "obj"
    /\ LET r == _validate_and_clean_data(ex_in.llm.body)
       IN  ex_out' = [op |-> "validate", raised |-> r.raised, val |-> r.val]
    /\ UNCHANGED <<appVars, ex_in, storeVars, cronVars, writers>>

ExtractNext == ExtractWorkdayData \/ ValidateAndCleanData

SpecExtract == ExtractInit /\ [][ExtractNext]_vars

----------------------------------------------------------------------------
(* Properties of the extractor.                                            *)

\* The weekday name of a calendar date by Zeller's congruence (0 Saturday,
\* 1 Sunday, ... 6 Friday), the reference the derived day is compared with.
ZellerDayName(dt) ==
    LET mm == IF dt.m < 3 THEN dt.m + 12 ELSE dt.m
        yy == IF dt.m < 3 THEN dt.y - 1 ELSE dt.y
        k  == yy % 100
        j  == yy \div 100
        h  == (dt.d + ((13 * (mm + 1)) \div 5) + k + (k \div 4) + (j \div 4) + 5 * j) % 7
    IN  << Str(<<"shabbat">>), Str(<<"rishon">>), Str(<<"sheni">>),
           Str(<<"shlishi">>), Str(<<"revii">>), Str(<<"hamishi">>),
           Str(<<"shishi">>) >>[h + 1]

\* v is a text of the shape DD/MM/YYYY naming an existing day.
IsDDMMYYYY(v) ==
    /\ v.t = "str"
    /\ Len(v.s) = 10
    /\ StrptimeDate(v.s, date_formats[1]).ok

DateOf(v) == StrptimeDate(v.s, date_formats[1])

BlankTranscript(v) == v = None \/ (v.t = "str" /\ \A i \in 1..Len(v.s) : v.s[i] = " ")

\* The failure outcomes C5 lists: a blank transcript, a failed call, an empty
\* reply, a reply that is no JSON, a JSON reply that is no object.
C5_FailureCase ==
    \/ BlankTranscript(ex_in.transcribed_text)
    \/ ex_in.llm.kind = "raise"
    \/ /\ ex_in.llm.kind = "content"
       /\ ex_in.llm.body.j \in {"empty", "garbage", "list", "null", "num", "str"}

C6_DayMatchesDateInEveryRecord ==
    (ex_out.op = "extract" /\ ~ex_out.raised /\ IsDDMMYYYY(ex_out.val["date"]))
        => ex_out.val["day"] = ZellerDayName(DateOf(ex_out.val["date"]))

\* The record extract_workday_data returned came out of normalization: it is
\* not the fallback record of this call.
NormalizedResult ==
    /\ ex_out.op = "extract"
    /\ ~ex_out.raised
    /\ ~(/\ ex_out.val["additional_notes"] = ManualReviewNote
         /\ ex_out.val["work_description"] = ex_in.transcribed_text
         /\ ex_out.val["day"] = EmptyStr)

\* C6 amended: in every record normalization produced (every record
\* _validate_and_clean_data returns, so every record extract_workday_data
\* returns other than the fallback record) the date is DD/MM/YYYY, day is the
\* weekday name of that date and a day the model supplied does not survive.
C6_DayMatchesDateWhenNormalized ==
    ((ex_out.op = "validate" /\ ~ex_out.raised) \/ NormalizedResult)
        => /\ IsDDMMYYYY(ex_out.val["date"])
           /\ ex_out.val["day"] = ZellerDayName(DateOf(ex_out.val["date"]))
           /\ ex_out.val["day"] # Str(<<"yom">>)

\* C6 witness: the model proposed a day for a date written 2025-06-21, and
\* the record returned carries the day derived from the date.
C6_Witness ==
    /\ NormalizedResult
    /\ "day" \in DOMAIN ex_in.llm.body.o
    /\ ex_in.llm.body.o["day"] = Str(<<"yom">>)
    /\ ex_in.llm.body.o["date"] = Str(<<"2", "0", "2", "5", "-", "0", "6", "-", "2", "1">>)
    /\ ex_out.val["day"] = Str(<<"shabbat">>)

\* C7: after validation each of the nine fields is present and is a string,
\* never absent and never null, also for replies that omit a key or carry
\* null for it.
C7_EveryFieldIsAString ==
    (ex_out.op = "validate" /\ ~ex_out.raised)
        => /\ DOMAIN ex_out.val = expected_fields
           /\ \A f \in expected_fields : ex_out.val[f].t = "str"

\* C8: _validate_and_clean_data is total: it returns a record for every
\* input mapping, a missing, empty or unrecognised date included.
C8_ValidatorIsTotal ==
    ex_out.op = "validate" => ~ex_out.raised

----------------------------------------------------------------------------
(* GoogleSheetsManager (sheets.py) and DataManager (data_manager.py).      *)
(*                                                                         *)
(* A row of the sheet is its twelve cells, with the number of the save     *)
(* call that wrote it (0: the header) kept beside them as history.         *)

\* A dict passed as workday_data (None is the other value passed).
PyDict(d) == [t |-> "dict", s |-> <<>>, d |-> d]

\* Python truthiness of workday_data: None and {} are false.
TruthyDict(v) == v.t = "dict" /\ DOMAIN v.d # {}

\* d[key] = value
DictPut(d, key, value) ==
    [k \in DOMAIN d \cup {key} |-> IF k = key THEN value ELSE d[k]]

\* The keys of HEBREW_COLUMNS, in column order A..L.
HEBREW_COLUMNS ==
    << "day", "date", "recording_date", "start_time", "end_time",
       "project_name", "sub_project", "work_description", "workers",
       "additional_notes", "raw_transcription", "status" >>

PendingApproval == Str(<<"pending-approval">>)

HeaderRow ==
    [cells |-> [i \in 1..12 |-> Str(<<HEBREW_COLUMNS[i]>>)], by |-> 0]

\* A cell holds nothing: an empty text, or a null that was never written.
EmptyCell(v) == v = EmptyStr \/ v = None

\* spreadsheets().values().get(range=A:A): the rows of column A down to the
\* last one that holds a value; the empty rows after it are not returned.
RECURSIVE ColumnA(_)
ColumnA(rows) ==
    IF rows = <<>> THEN <<>>
    ELSE IF EmptyCell(rows[Len(rows)].cells[1])
         THEN ColumnA(SubSeq(rows, 1, Len(rows) - 1))
         ELSE [i \in 1..Len(rows) |-> rows[i].cells[1]]

\* spreadsheets().values().update(range=A{n}:L{n}, RAW): row n takes the
\* cells given; a null cell is skipped and keeps what the sheet held.
UpdateRow(rows, n, cells, by) ==
    LET old == IF n <= Len(rows) THEN rows[n].cells ELSE [i \in 1..12 |-> EmptyStr]
        new == [cells |-> [i \in 1..12 |-> IF cells[i] = None THEN old[i] ELSE cells[i]],
                by |-> by]
    IN  IF n <= Len(rows) THEN [rows EXCEPT ![n] = new] ELSE Append(rows, new)

\* The outcomes of the two Sheets calls of one add_workday_summary.
ApiOutcomes == {"ok", "get_fails", "update_fails"}

\* add_workday_summary: the row is written at len(values) + 1, where values
\* is what the read of column A returned.  Any error is raised as
\* StorageError.  by is the number of the save call, kept as history.
add_workday_summary(rows, workday_data, api, by) ==
    IF DOMAIN workday_data = {} \/ api # "ok"
    THEN [raised |-> TRUE, rows |-> rows, next_row |-> 0]
    ELSE LET row_data == [i \in 1..12 |->
                            DictGet(workday_data, HEBREW_COLUMNS[i],
                                    IF i = 12 THEN PendingApproval ELSE EmptyStr)]
             next_row == Len(ColumnA(rows)) + 1
         IN  [raised |-> FALSE,
              rows |-> UpdateRow(rows, next_row, row_data, by),
              next_row |-> next_row]

save_workday_data_no_empty_check(sm, rows, workday_data, raw_transcription, recording_date, api, by) ==
    IF ~sm \/ workday_data.t # "dict"
    THEN [raised |-> FALSE, returned |-> FALSE, attempted |-> FALSE,
          rows |-> rows, next_row |-> 0, caller |-> workday_data]
    ELSE LET e1 == IF Truthy(raw_transcription)
                   THEN DictPut(workday_data.d, "raw_transcription", raw_transcription)
                   ELSE workday_data.d
             e2 == IF Truthy(recording_date)
                   THEN DictPut(e1, "recording_date", recording_date)
                   ELSE e1
             r  == add_workday_summary(rows, DictPut(e2, "status", PendingApproval), api, by)
         IN  [raised |-> FALSE, returned |-> ~r.raised, attempted |-> TRUE,
              rows |-> r.rows, next_row |-> r.next_row,
              caller |-> workday_data]

save_workday_data_without_store_check(sm, rows, workday_data, raw_transcription, recording_date, api, by) ==
    IF ~TruthyDict(workday_data)
    THEN [raised |-> FALSE, returned |-> FALSE, attempted |-> FALSE,
          rows |-> rows, next_row |-> 0, caller |-> workday_data]
    ELSE LET r == add_workday_summary(rows,
                      DictPut(workday_data.d, "status", PendingApproval), api, by)
         IN  [raised |-> FALSE, returned |-> ~r.raised, attempted |-> TRUE,
              rows |-> r.rows, next_row |-> r.next_row,
              caller |-> workday_data]

save_workday_data_enriches_in_place(sm, rows, workday_data, raw_transcription, recording_date, api, by) ==
    IF ~sm \/ ~TruthyDict(workday_data)
    THEN [raised |-> FALSE, returned |-> FALSE, attempted |-> FALSE,
          rows |-> rows, next_row |-> 0, caller |-> workday_data]
    ELSE LET e1 == IF Truthy(raw_transcription)
                   THEN DictPut(workday_data.d, "raw_transcription", raw_transcription)
                   ELSE workday_data.d
             e2 == IF Truthy(recording_date)
                   THEN DictPut(e1, "recording_date", recording_date)
                   ELSE e1
             r  == add_workday_summary(rows, DictPut(e2, "status", PendingApproval), api, by)
         IN  [raised |-> FALSE, returned |-> ~r.raised, attempted |-> TRUE,
              rows |-> r.rows, next_row |-> r.next_row,
              caller |-> PyDict(DictPut(e2, "status", PendingApproval))]

\* save_workday_data on a DataManager whose sheets_manager is set (sm) or
\* None: the enriched copy (line 41) is appended; an exception of the append
\* is caught and False returned.  caller is the caller's own record after
\* the call, which the copy leaves as it was.
save_workday_data(sm, rows, workday_data, raw_transcription, recording_date, api, by) ==
    IF ~sm \/ ~TruthyDict(workday_data)
    THEN [raised |-> FALSE, returned |-> FALSE, attempted |-> FALSE,
          rows |-> rows, next_row |-> 0, caller |-> workday_data]
    ELSE LET e1 == IF Truthy(raw_transcription)
                   THEN DictPut(workday_data.d, "raw_transcription", raw_transcription)
                   ELSE workday_data.d
             e2 == IF Truthy(recording_date)
                   THEN DictPut(e1, "recording_date", recording_date)
                   ELSE e1
             r  == add_workday_summary(rows, DictPut(e2, "status", PendingApproval), api, by)
         IN  [raised |-> FALSE, returned |-> ~r.raised, attempted |-> TRUE,
              rows |-> r.rows, next_row |-> r.next_row,
              caller |-> workday_data]

\* setup_spreadsheet_headers: the header row is written when row 1 holds
\* fewer than twelve values.  TRUE stands for StorageError raised.
HeaderCells(rows) ==
    IF rows = <<>> THEN 0
    ELSE Cardinality({i \in 1..12 : ~EmptyCell(rows[1].cells[i])})

setup_spreadsheet_headers(rows, api) ==
    IF api = "get_fails" THEN [raised |-> TRUE, rows |-> rows]
    ELSE IF HeaderCells(rows) >= 12 THEN [raised |-> FALSE, rows |-> rows]
    ELSE IF api = "update_fails" THEN [raised |-> TRUE, rows |-> rows]
    ELSE [raised |-> FALSE, rows |-> UpdateRow(rows, 1, HeaderRow.cells, 0)]

----------------------------------------------------------------------------
(* The store on its own: one DataManager, saves one after another.         *)

MaxSaves == 3

\* Records handed to save_workday_data: what the extractor returns for a
\* good reply and for a failed one, an empty dict, and None.
NormalRecord ==
    _validate_and_clean_data(
        JsonObj(FullObject(Str(<<"2", "1", "/", "0", "6", "/", "2", "0", "2", "5">>),
                           Str(<<"0", "8", ":", "0", "0">>)))).val

FallbackRecord ==
    _create_fallback_data(Str(<<"avadnu", " ", "bagesher">>),
                          [ok |-> TRUE, y |-> 2025, m |-> 6, d |-> 22])

SaveRecords == { PyDict(NormalRecord), PyDict(FallbackRecord), PyDict(EmptyDict), None }

SaveExtras ==
    { <<None, None>>,
      <<Str(<<"avadnu", " ", "bagesher">>),
        Str(<<"2", "2", "/", "0", "6", "/", "2", "0", "2", "5">>)>> }

StoreInit ==
    /\ writers = <<>>
    /\ ex_in = [transcribed_text |-> None, reference_date |-> None,
                llm |-> LlmRaises, today |-> [ok |-> TRUE, y |-> 2025, m |-> 6, d |-> 22]]
    /\ ex_out = NotCalled
    /\ dm_built = FALSE
    /\ sheets_manager = FALSE
    /\ sheet \in {<<>>, <<HeaderRow>>}
    /\ save_log = <<>>
    /\ dm_init = NoDataManager
    /\ CronIdle
    /\ AppIdle

\* DataManager.__init__: sheets_manager is assigned as soon as
\* GoogleSheetsManager() returns, before the headers are set up, and an
\* exception of either step is caught.
DataManager__init__(rows, disable_sheets, auth_ok, api) ==
    IF disable_sheets \/ ~auth_ok
    THEN [sheets_manager |-> FALSE, rows |-> rows,
          init |-> [disable_sheets |-> disable_sheets, auth_ok |-> auth_ok,
                    headers_raised |-> FALSE]]
    ELSE [sheets_manager |-> TRUE, rows |-> setup_spreadsheet_headers(rows, api).rows,
          init |-> [disable_sheets |-> FALSE, auth_ok |-> TRUE,
                    headers_raised |-> setup_spreadsheet_headers(rows, api).raised]]

\* is_sheets_available: self.sheets_manager is not None.
is_sheets_available(sm) == sm

\* What the construction of a DataManager can meet: Sheets disabled, the
\* credentials refused, or one of the API outcomes during header setup.
DataManagerEnv ==
    { <<TRUE, TRUE, "ok">>, <<FALSE, FALSE, "ok">> }
    \cup { <<FALSE, TRUE, api>> : api \in ApiOutcomes }

DataManagerInit ==
    /\ ~dm_built
    /\ \E env \in DataManagerEnv :
          LET dm == DataManager__init__(sheet, env[1], env[2], env[3])
          IN  /\ sheets_manager' = dm.sheets_manager
              /\ sheet' = dm.rows
              /\ dm_init' = dm.init
    /\ dm_built' = TRUE
    /\ UNCHANGED <<appVars, exVars, save_log, cronVars, writers>>

\* One call of save_workday_data.
SaveWorkdayData ==
    /\ dm_built
    /\ Len(save_log) < MaxSaves
    /\ \E workday_data \in SaveRecords, extra \in SaveExtras, api \in ApiOutcomes :
          LET by == Len(save_log) + 1
              r  == save_workday_data(sheets_manager, sheet, workday_data,
                                      extra[1], extra[2], api, by)
          IN  /\ sheet' = r.rows
              /\ save_log' = Append(save_log,
                     [workday_data |-> workday_data, available |-> sheets_manager,
                      api |-> api, raised |-> r.raised, returned |-> r.returned,
                      attempted |-> r.attempted, next_row |-> r.next_row,
                      rows_before |-> sheet, rows_after |-> r.rows])
    /\ UNCHANGED <<appVars, exVars, dm_built, sheets_manager, dm_init, cronVars, writers>>

StoreNext == DataManagerInit \/ SaveWorkdayData

SpecStore == StoreInit /\ [][StoreNext]_vars

----------------------------------------------------------------------------
(* Properties of the store.                                                *)

\* The numbers of the save calls that returned True, in call order.
SuccessfulSaves ==
    SelectSeq([i \in 1..Len(save_log) |-> i], LAMBDA i : save_log[i].returned)

\* The save calls whose rows the sheet holds, from the top row down.
RowWriters ==
    LET data == SelectSeq(sheet, LAMBDA r : r.by # 0)
    IN  [i \in 1..Len(data) |-> data[i].by]

\* C9: on a configured store every successful save appends one new row after
\* the last populated row: after m successful calls the sheet holds m data
\* rows in call order, and no call overwrites a row an earlier call wrote,
\* rows with an empty day (fallback records) included.
C9_EverySaveAppendsARow ==
    sheets_manager => RowWriters = SuccessfulSaves

\* The record is empty or null.
EmptyRecord(v) == v = None \/ v = PyDict(EmptyDict)

\* C10: save_workday_data never raises; with the store unavailable or the
\* record empty or null it returns False and attempts no write; when the
\* append raises it returns False; it returns True only when the append
\* succeeded and the row is in the sheet.
C10_SaveNeverRaises ==
    \A i \in 1..Len(save_log) :
        LET e == save_log[i]
        IN  /\ ~e.raised
            /\ (~e.available \/ EmptyRecord(e.workday_data))
                  => (~e.returned /\ ~e.attempted /\ e.rows_after = e.rows_before)
            /\ e.api # "ok" => (~e.returned /\ e.rows_after = e.rows_before)
            /\ e.returned
                  => /\ e.api = "ok"
                     /\ e.next_row \in 1..Len(e.rows_after)
                     /\ e.rows_after[e.next_row].by = i
                     /\ e.rows_after[e.next_row].cells[8]
                          = e.workday_data.d["work_description"]

\* C10 witness: one save was refused for an empty record without a write,
\* one returned False because the append raised, and one returned True.
C10_Witness ==
    /\ \E i \in 1..Len(save_log) :
          EmptyRecord(save_log[i].workday_data) /\ save_log[i].available
            /\ ~save_log[i].attempted /\ ~save_log[i].returned
    /\ \E i \in 1..Len(save_log) :
          save_log[i].attempted /\ save_log[i].api = "update_fails"
            /\ ~save_log[i].returned
    /\ \E i \in 1..Len(save_log) : save_log[i].returned

----------------------------------------------------------------------------
(* VoiceProcessor (voice_processor.py).                                    *)

\* The speech-to-text call raised.
SttRaises == [kind |-> "raise", text |-> None]

SttText(v) == [kind |-> "text", text |-> v]

\* _transcribe_audio: the transcript, or None when the call raised.
_transcribe_audio(stt) == IF stt.kind = "raise" THEN None ELSE stt.text

\* _extract_workday_data: None without a data extractor, else the
\* extractor's record (None if the extractor raised).
_extract_workday_data(de, text, reference_date, llm, today) ==
    IF ~de THEN None
    ELSE LET r == extract_workday_data(text, reference_date, llm, today)
         IN  IF r.raised THEN None ELSE PyDict(r.val)

\* Line 49 of the extractor: the chat-completion call is reached unless the
\* transcript is empty or blank.
ChatCompletionCalled(transcribed_text) ==
    /\ Truthy(transcribed_text)
    /\ transcribed_text.t = "str"
    /\ Strip(transcribed_text.s) # <<>>

\* The calls _extract_workday_data makes: none without a data extractor.
ExtractorCalls(de, text) ==
    IF ~de THEN <<>>
    ELSE <<"extractor">> \o (IF ChatCompletionCalled(text) THEN <<"llm">> ELSE <<>>)

process_audio_no_text_check(de, stt, llm, today, reference_date) ==
    [success |-> TRUE, text |-> _transcribe_audio(stt),
     workday_data |-> _extract_workday_data(de, _transcribe_audio(stt),
                                            reference_date, llm, today),
     calls |-> <<"stt">> \o ExtractorCalls(de, _transcribe_audio(stt))]

\* process_audio: (success, text, workday_data), and the calls it made, in
\* order.  No exception leaves it: every step is inside its try block.
process_audio(de, stt, llm, today, reference_date) ==
    LET text == _transcribe_audio(stt)
    IN  IF ~Truthy(text)
        THEN [success |-> FALSE, text |-> None, workday_data |-> None,
              calls |-> <<"stt">>]
        ELSE [success |-> TRUE, text |-> text,
              workday_data |-> _extract_workday_data(de, text, reference_date,
                                                     llm, today),
              calls |-> <<"stt">> \o ExtractorCalls(de, text)]

----------------------------------------------------------------------------
(* Telegram's getUpdates, and CronMessageProcessor (cron_processor.py).    *)
(*                                                                         *)
(* An update is [update_id, voice, date]: date is the clock value at which *)
(* the message was sent.  The clock counts steps of twelve hours.          *)

\* Bounds of the exploration: updates Telegram receives, runs of the job,
\* and steps of the clock.
MaxUpdates == 2

MaxRuns == 2

MaxTicks == 2

\* limit=100 of the get_updates call.
PageLimit == 100

\* timedelta(hours=24) of the window filter.
WindowHours == 24

\* The calendar day of a clock value: the clock starts on 22/06/2025.
ClockDate(t) == MkDate(2025, 6, 22 + ((t * 12) \div 24))

Min(a, b) == IF a <= b THEN a ELSE b

RECURSIVE MaxId(_)
MaxId(updates) ==
    IF updates = <<>> THEN 0
    ELSE LET m == MaxId(Tail(updates))
         IN  IF Head(updates).update_id >= m THEN Head(updates).update_id ELSE m

\* Bot.get_updates(offset, limit) as the Bot API documents it: the updates
\* with update_id below offset are confirmed and forgotten; the page holds
\* the earliest remaining ones.  Offset 0 stands for None (no offset sent).
get_updates(pending, offset) ==
    LET kept == IF offset = 0 THEN pending
                ELSE SelectSeq(pending, LAMBDA u : u.update_id >= offset)
    IN  [pending |-> kept, page |-> SubSeq(kept, 1, Min(Len(kept), PageLimit))]

FetchOffset_no_increment(last) == last

FetchOffset_always_bound(last) == last + 1

\* Line 91: last_processed_update_id + 1 when it is above 0, else None.
FetchOffset(last) == IF last > 0 THEN last + 1 ELSE 0

recent_updates_unfiltered(page, t) == page

\* Lines 100-109: update.message.date > datetime.now() - timedelta(hours=24)
InWindow(u, t) == u.date * 12 > t * 12 - WindowHours

recent_updates(page, t) == SelectSeq(page, LAMBDA u : InWindow(u, t))

\* What the world does to one voice message of a batch: the download, the
\* speech-to-text call, the model call and the Sheets calls.
GoodReply ==
    Content("json", TRUE,
            JsonObj(FullObject(Str(<<"2", "0", "2", "5", "-", "0", "6", "-", "2", "1">>),
                               Str(<<"8", ":", "0", "0">>))))

SomeTranscript == SttText(Str(<<"avadnu", " ", "bagesher">>))

Outcome(download, stt, llm, api) ==
    [download |-> download, stt |-> stt, llm |-> llm, api |-> api]

MessageOutcomes ==
    { Outcome("get_file_raises", SttRaises, LlmRaises, "ok"),
      Outcome("raises", SttRaises, LlmRaises, "ok"),
      Outcome("ok", SttRaises, LlmRaises, "ok"),
      Outcome("ok", SomeTranscript, GoodReply, "ok"),
      Outcome("ok", SomeTranscript, GoodReply, "update_fails") }

\* The outcome drawn for a message that is no voice message (nothing of it
\* is used).
Unused == Outcome("ok", SttRaises, LlmRaises, "ok")

\* _handle_workday_data_cron: a save when workday_data is truthy; nothing is
\* sent, and an exception would be caught.
_handle_workday_data_cron(sm, rows, u, workday_data, raw_transcription, api, t) ==
    IF TruthyDict(workday_data)
    THEN save_workday_data(sm, rows, workday_data, raw_transcription,
                           Str(StrftimeDMY(ClockDate(u.date))), api, u.update_id)
    ELSE [raised |-> FALSE, returned |-> FALSE, attempted |-> FALSE,
          rows |-> rows, next_row |-> 0]

\* Lines 148-156: the call of process_audio, tabulated over what a batch run
\* can pass: the processor's data extractor, the outcomes of the two model
\* calls, the day of the run and the day of the message (whose date, as
\* DD/MM/YYYY, is the reference date).  The table is merged with the empty
\* function so that it is computed once and not at every application.
PipelineResult ==
    [x \in BOOLEAN \X {m.stt : m \in MessageOutcomes}
            \X {m.llm : m \in MessageOutcomes} \X (0..MaxTicks) \X (0..MaxTicks) |->
        process_audio(x[1], x[2], x[3], ClockDate(x[4]),
                      Str(StrftimeDMY(ClockDate(x[5]))))] @@ <<>>

CountProcessed_unless_save_failed(acc, u, ctx, h) ==
    IF h.returned
    THEN [acc EXCEPT !.stats.processed_voice = @ + 1,
                     !.rows = h.rows,
                     !.hist = Append(@, [run |-> ctx.run, inst |-> ctx.inst,
                                         update_id |-> u.update_id,
                                         success |-> TRUE, saved |-> TRUE]),
                     !.outcomes = Append(@, "processed")]
    ELSE [acc EXCEPT !.stats.errors = @ + 1,
                     !.hist = Append(@, [run |-> ctx.run, inst |-> ctx.inst,
                                         update_id |-> u.update_id,
                                         success |-> TRUE, saved |-> FALSE]),
                     !.outcomes = Append(@, "processed")]

\* Lines 158-170: after a successful pipeline and the save h, one processed
\* message is counted and recorded.
CountProcessed(acc, u, ctx, h) ==
    [acc EXCEPT !.stats.processed_voice = @ + 1,
                !.rows = h.rows,
                !.hist = Append(@, [run |-> ctx.run, inst |-> ctx.inst,
                                    update_id |-> u.update_id,
                                    success |-> TRUE, saved |-> h.returned]),
                !.outcomes = Append(@, "processed")]

\* Lines 158-173: the branch on the pipeline's result r.
AfterPipeline(acc, u, oc, ctx, r) ==
    IF r.success
    THEN CountProcessed(acc, u, ctx,
             _handle_workday_data_cron(ctx.sm, acc.rows, u, r.workday_data,
                                       r.text, oc.api, ctx.now))
    ELSE [acc EXCEPT
            !.hist = Append(@, [run |-> ctx.run, inst |-> ctx.inst,
                                update_id |-> u.update_id,
                                success |-> FALSE, saved |-> FALSE]),
            !.outcomes = Append(@, "failed")]

finally_unlink_skipped(temp_file_path) == temp_file_path

\* Lines 177-183, and telegram_bot.py lines 75-82: the finally clause
\* unlinks the temporary file when one was created.  The result says
\* whether the file is still there.
finally_unlink(temp_file_path) == FALSE

\* Lines 140-145 and 177-183: the temporary file of one voice message.  It
\* is created after get_file and before download_to_drive.
TempFiles(temp, oc) ==
    IF oc.download = "get_file_raises" THEN temp
    ELSE [created |-> temp.created + 1,
          left |-> temp.left + (IF finally_unlink(TRUE) THEN 1 ELSE 0)]

_process_voice_message_counts_twice(acc, u, oc, ctx) ==
    IF oc.download # "ok"
    THEN [acc EXCEPT !.stats.errors = @ + 2,
                     !.outcomes = Append(@, "raised"),
                     !.temp = TempFiles(@, oc)]
    ELSE AfterPipeline([acc EXCEPT !.temp = TempFiles(@, oc)], u, oc, ctx,
                       PipelineResult[<<ctx.de, oc.stt, oc.llm, ctx.now, u.date>>])

\* _process_voice_message on the accumulator acc = [stats, rows, hist,
\* outcomes, temp]: an exception of get_file or of the download counts one
\* error; a successful pipeline is followed by the save and counts one
\* processed message; a pipeline that returns failure counts nothing.  On
\* every path the finally clause deals with the temporary file.
_process_voice_message(acc, u, oc, ctx) ==
    IF oc.download # "ok"
    THEN [acc EXCEPT !.stats.errors = @ + 1,
                     !.outcomes = Append(@, "raised"),
                     !.temp = TempFiles(@, oc)]
    ELSE AfterPipeline([acc EXCEPT !.temp = TempFiles(@, oc)], u, oc, ctx,
                       PipelineResult[<<ctx.de, oc.stt, oc.llm, ctx.now, u.date>>])

\* _process_single_update: only a voice message is counted and processed.
_process_single_update(acc, u, oc, ctx) ==
    IF u.voice
    THEN _process_voice_message([acc EXCEPT !.stats.voice_messages = @ + 1],
                                u, oc, ctx)
    ELSE [acc EXCEPT !.outcomes = Append(@, "other")]

RECURSIVE ProcessUpdates_stop_at_error(_, _, _, _)
ProcessUpdates_stop_at_error(acc, updates, ocs, ctx) ==
    IF updates = <<>> THEN acc
    ELSE LET a == _process_single_update(acc, Head(updates), Head(ocs), ctx)
         IN  IF a.stats.errors > acc.stats.errors THEN a
             ELSE ProcessUpdates_stop_at_error(a, Tail(updates), Tail(ocs), ctx)

\* Lines 64-70: the loop over the updates, in the order received; no
\* message's failure ends it.
RECURSIVE ProcessUpdates(_, _, _, _)
ProcessUpdates(acc, updates, ocs, ctx) ==
    IF updates = <<>> THEN acc
    ELSE ProcessUpdates(_process_single_update(acc, Head(updates), Head(ocs), ctx),
                        Tail(updates), Tail(ocs), ctx)


----------------------------------------------------------------------------
(* The batch job: messages arrive at Telegram, the clock advances, and the *)
(* job runs, either through run_cron_processing (which builds a new        *)
(* VoiceProcessor, DataManager and CronMessageProcessor every time) or by  *)
(* calling fetch_and_process_recent_messages again on the processor that   *)
(* exists.                                                                 *)

FetchOutcomes == {"ok", "telegram_error", "other_error"}

Init ==
    /\ writers = <<>>
    /\ ex_in = [transcribed_text |-> None, reference_date |-> None,
                llm |-> LlmRaises, today |-> [ok |-> TRUE, y |-> 2025, m |-> 6, d |-> 22]]
    /\ ex_out = NotCalled
    /\ dm_built = FALSE
    /\ sheets_manager = FALSE
    /\ sheet = <<>>
    /\ save_log = <<>>
    /\ dm_init = NoDataManager
    /\ CronIdle
    /\ AppIdle

\* A user sends a message: Telegram queues an update with the next id.
Arrive ==
    /\ tg_next_id <= MaxUpdates
    /\ \E voice \in BOOLEAN :
          tg_pending' = Append(tg_pending,
                               [update_id |-> tg_next_id, voice |-> voice, date |-> now])
    /\ tg_next_id' = tg_next_id + 1
    /\ UNCHANGED <<appVars, exVars, storeVars, now, inst, last_processed_update_id,
                   data_extractor, run, hist, writers>>

\* Twelve hours pass.  Telegram keeps no update longer than 24 hours, so an
\* update that old is dropped (Expire) before the clock moves on.
Tick ==
    /\ now < MaxTicks
    /\ \A k \in DOMAIN tg_pending : (now - tg_pending[k].date) * 12 < WindowHours
    /\ now' = now + 1
    /\ UNCHANGED <<appVars, exVars, storeVars, tg_pending, tg_next_id, inst,
                   last_processed_update_id, data_extractor, run, hist, writers>>

\* Telegram drops the oldest unconfirmed update once it is 24 hours old.
Expire ==
    /\ tg_pending # <<>>
    /\ (now - Head(tg_pending).date) * 12 >= WindowHours
    /\ tg_pending' = Tail(tg_pending)
    /\ UNCHANGED <<appVars, exVars, storeVars, now, tg_next_id, inst,
                   last_processed_update_id, data_extractor, run, hist, writers>>

EarlyReturn_skips_pending(r, last, pending, rows) ==
    /\ run' = r
    /\ last_processed_update_id' = (IF MaxId(pending) > last THEN MaxId(pending) ELSE last)
    /\ tg_pending' = pending
    /\ hist' = hist
    /\ sheet' = rows

\* Lines 57-59 and 105-113: the run returns before the loop.
EarlyReturn(r, last, pending, rows) ==
    /\ run' = r
    /\ last_processed_update_id' = last
    /\ tg_pending' = pending
    /\ hist' = hist
    /\ sheet' = rows

\* Lines 72-77: after the loop the offset becomes the largest update_id of
\* the updates the loop went over, and end_time is set.
LoopDone(r, pending, updates, acc) ==
    /\ run' = [r EXCEPT !.updates = updates, !.outcomes = acc.outcomes,
                        !.stats = [acc.stats EXCEPT !.ended = TRUE],
                        !.temp = acc.temp]
    /\ last_processed_update_id' = MaxId(updates)
    /\ tg_pending' = pending
    /\ hist' = acc.hist
    /\ sheet' = acc.rows

\* Lines 61-70: the loop over the updates that passed the window filter.
RunLoop(r, pending, updates, ctx, rows) ==
    \E ocs \in [1..Len(updates) -> MessageOutcomes] :
       /\ \A k \in 1..Len(updates) : ~updates[k].voice => ocs[k] = Unused
       /\ LoopDone(r, pending, updates,
                   ProcessUpdates([stats |-> [NoStats EXCEPT
                                                !.total_messages = Len(updates)],
                                   rows |-> rows, hist |-> hist, outcomes |-> <<>>,
                                   temp |-> [created |-> 0, left |-> 0]],
                                  updates, ocs, ctx))

\* _fetch_recent_updates answered with the page g.page.
Fetched(r, g, updates, ctx, last, rows) ==
    IF updates = <<>>
    THEN EarlyReturn([r EXCEPT !.page = g.page], last, g.pending, rows)
    ELSE RunLoop([r EXCEPT !.page = g.page], g.pending, updates, ctx, rows)

\* The run record at the start of run number run.n + 1.
StartRun(i, last) ==
    [n |-> run.n + 1, inst |-> i, start_offset |-> last,
     offset |-> FetchOffset(last), fetch |-> "ok", page |-> <<>>,
     updates |-> <<>>, outcomes |-> <<>>, stats |-> NoStats,
     temp |-> [created |-> 0, left |-> 0]]

\* fetch_and_process_recent_messages on a processor whose
\* last_processed_update_id is last, whose DataManager has sheets_manager sm
\* and whose VoiceProcessor has data_extractor de, with the sheet holding
\* rows.  A TelegramError of get_updates gives no updates; another exception
\* is counted by the outer handler.
fetch_and_process_recent_messages(i, last, sm, de, rows) ==
    \E fetch \in FetchOutcomes :
       IF fetch = "telegram_error"
       THEN EarlyReturn([StartRun(i, last) EXCEPT !.fetch = fetch],
                        last, tg_pending, rows)
       ELSE IF fetch = "other_error"
       THEN EarlyReturn([StartRun(i, last) EXCEPT !.fetch = fetch, !.stats.errors = 1],
                        last, tg_pending, rows)
       ELSE Fetched(StartRun(i, last),
                    get_updates(tg_pending, FetchOffset(last)),
                    recent_updates(get_updates(tg_pending, FetchOffset(last)).page, now),
                    [sm |-> sm, de |-> de, now |-> now, run |-> run.n + 1, inst |-> i],
                    last, rows)

\* run_cron_processing: new VoiceProcessor (its data extractor may fail to
\* initialize), new DataManager, new CronMessageProcessor with
\* last_processed_update_id = 0, then one run.
NewProcessor(de, dm) ==
    /\ data_extractor' = de
    /\ sheets_manager' = dm.sheets_manager
    /\ dm_built' = TRUE
    /\ dm_init' = dm.init
    /\ inst' = inst + 1
    /\ fetch_and_process_recent_messages(inst + 1, 0, dm.sheets_manager, de, dm.rows)

RunCronProcessing ==
    /\ run.n < MaxRuns
    /\ \E de \in BOOLEAN, env \in DataManagerEnv :
          NewProcessor(de, DataManager__init__(sheet, env[1], env[2], env[3]))
    /\ UNCHANGED <<appVars, exVars, save_log, now, tg_next_id, writers>>

\* Another call of fetch_and_process_recent_messages on the same processor.
FetchAndProcess ==
    /\ inst >= 1
    /\ run.n < MaxRuns
    /\ fetch_and_process_recent_messages(inst, last_processed_update_id,
                                         sheets_manager, data_extractor, sheet)
    /\ UNCHANGED <<appVars, exVars, dm_built, sheets_manager, dm_init, save_log, now,
                   tg_next_id,
                   inst, data_extractor, writers>>

Next == Arrive \/ Tick \/ Expire \/ RunCronProcessing \/ FetchAndProcess

Spec == Init /\ [][Next]_vars


----------------------------------------------------------------------------
(* Properties of the batch job.                                            *)

\* The update_ids of a sequence of updates or of history entries.
Ids(seq) == [k \in DOMAIN seq |-> seq[k].update_id]

\* C1: across invocations of run_cron_processing (each builds a new
\* processor) no message that an earlier invocation ran through the pipeline
\* and persisted is run through the pipeline again by a later invocation.
C1_NoMessageProcessedTwice ==
    \A i, j \in DOMAIN hist :
        ~ ( /\ i < j
            /\ hist[i].inst < hist[j].inst
            /\ hist[i].update_id = hist[j].update_id
            /\ hist[i].success
            /\ hist[i].saved )

\* C2: on one processor last_processed_update_id never decreases, and no run
\* fetches an update whose id is at or below the offset held when the run
\* started.
C2_OffsetMonotoneAndPageAboveOffset ==
    /\ [](run.n > 0 => \A k \in DOMAIN run.page :
                          run.page[k].update_id > run.start_offset)
    /\ [][inst' = inst => last_processed_update_id' >= last_processed_update_id]_vars

\* A second run on the same processor started from an offset above 0,
\* fetched a page and advanced the offset.
C2_Witness ==
    /\ run.n = 2
    /\ run.inst = 1
    /\ run.start_offset > 0
    /\ run.page # <<>>
    /\ last_processed_update_id > run.start_offset

\* C3: after a run whose fetch returned a non-empty page, the offset is the
\* largest update_id of the whole page, whether or not the window filter
\* dropped its messages.
C3_OffsetIsMaxOfFetchedPage ==
    (run.n > 0 /\ run.fetch = "ok" /\ run.page # <<>>)
        => last_processed_update_id = MaxId(run.page)

\* The messages of the latest run that the pipeline handled, in order.
ProcessedInRun ==
    Ids(SelectSeq(hist, LAMBDA h : h.run = run.n /\ h.success))

RECURSIVE IdsWithOutcome(_, _, _)
IdsWithOutcome(updates, outcomes, o) ==
    IF updates = <<>> \/ outcomes = <<>> THEN <<>>
    ELSE (IF Head(outcomes) = o THEN <<Head(updates).update_id>> ELSE <<>>)
         \o IdsWithOutcome(Tail(updates), Tail(outcomes), o)

RaisedInRun == Len(IdsWithOutcome(run.updates, run.outcomes, "raised"))

\* A batch of voice messages, all inside the window, none of which ended in a
\* pipeline failure without an exception.
C4_Batch ==
    /\ run.fetch = "ok"
    /\ run.updates # <<>>
    /\ \A k \in DOMAIN run.updates : run.updates[k].voice
    /\ \A k \in DOMAIN run.outcomes : run.outcomes[k] \in {"raised", "processed"}

----------------------------------------------------------------------------
(* Properties of the DataManager's construction.                           *)

\* The store was initialized: not disabled, authentication and header setup
\* both completed without error.
InitializedAtStartup ==
    /\ ~dm_init.disable_sheets
    /\ dm_init.auth_ok
    /\ ~dm_init.headers_raised

\* C11: once a DataManager is constructed, is_sheets_available() is true if
\* and only if the store was not disabled and authentication and header
\* setup both completed without error.
C11_AvailableIffInitialized ==
    dm_built => (is_sheets_available(sheets_manager) <=> InitializedAtStartup)


----------------------------------------------------------------------------
(* The pipeline on its own: one call of VoiceProcessor.process_audio.      *)

\* What the speech-to-text call can give: an exception, an empty text, a
\* blank text, a sentence.
SttOutcomes ==
    { SttRaises, SttText(EmptyStr), SttText(Str(<<" ">>)),
      SttText(Str(<<"avadnu", " ", "bagesher">>)) }

PipelineInit ==
    /\ writers = <<>>
    /\ ex_in = [transcribed_text |-> None, reference_date |-> None,
                llm |-> LlmRaises, today |-> [ok |-> TRUE, y |-> 2025, m |-> 6, d |-> 22]]
    /\ ex_out = NotCalled
    /\ dm_built = FALSE
    /\ sheets_manager = FALSE
    /\ sheet = <<>>
    /\ save_log = <<>>
    /\ dm_init = NoDataManager
    /\ CronIdle
    /\ vp_in \in [de : BOOLEAN, stt : SttOutcomes, llm : LlmOutcomes,
                  today : Todays, reference_date : ReferenceDates]
    /\ vp_out = NoCall
    /\ fmt_in = NoCall
    /\ fmt_out = NoCall
    /\ live = NoCall
    /\ replies = <<>>
    /\ local = NoCall

\* One call of process_audio.
ProcessAudio ==
    /\ vp_out = NoCall
    /\ vp_out' = [op |-> "process_audio",
                  result |-> process_audio(vp_in.de, vp_in.stt, vp_in.llm,
                                           vp_in.today, vp_in.reference_date)]
    /\ UNCHANGED <<exVars, storeVars, cronVars, vp_in, fmt_in, fmt_out, live,
                   replies, local, writers>>

PipelineNext == ProcessAudio

SpecPipeline == PipelineInit /\ [][PipelineNext]_vars

\* C12: whenever process_audio returns success, the record it returns is a
\* record, not None.
C12_SuccessCarriesARecord ==
    (vp_out # NoCall /\ vp_out.result.success)
        => vp_out.result.workday_data.t = "dict"

\* The transcription failed: the call raised or gave an empty text.
TranscriptionFailed == vp_in.stt.kind = "raise" \/ ~Truthy(vp_in.stt.text)

\* C13: when transcription fails, process_audio returns (False, None, None)
\* and the speech-to-text call is the only call it made: the extractor is
\* not invoked.
C13_TranscriptionFailureStopsThePipeline ==
    (vp_out # NoCall /\ TranscriptionFailed)
        => /\ vp_out.result.success = FALSE
           /\ vp_out.result.text = None
           /\ vp_out.result.workday_data = None
           /\ vp_out.result.calls = <<"stt">>

\* The call returned an empty text on a processor that has a data extractor.
C13_Witness ==
    /\ vp_out # NoCall
    /\ vp_in.de
    /\ vp_in.stt = SttText(EmptyStr)
    /\ vp_out.result.success = FALSE


----------------------------------------------------------------------------
(* ResponseFormatter (response_formatter.py).  A rendered message is the   *)
(* banner and the field lines it carries; the emoji are left out.          *)

\* What an f-string makes of a value: str(value).
FStr(v) ==
    CASE v.t = "str" -> v
      [] v.t = "none" -> Str(<<"N", "o", "n", "e">>)
      [] OTHER -> Str(v.s)

\* The default of the Telegram summary for an absent key ("not stated").
NotStated == Str(<<"lo tzuyan">>)

ConsoleBanners ==
    [saved |-> "Data successfully added to Google Sheets!",
     save_failed |-> "Error adding data to Google Sheets",
     store_disabled |-> "Data extracted successfully (Google Sheets disabled)"]

CompleteBanners ==
    [saved |-> "hameida nosaf behatzlacha lagilayon",
     save_failed |-> "shgia behosafat hameida lagilayon",
     store_disabled |-> "hameida shechulatz (Google Sheets lo zamin)"]

format_complete_workday_data_ignores_availability(workday_data, sheets_available, sheets_saved) ==
    IF ~TruthyDict(workday_data)
    THEN [kind |-> "unavailable", banner |-> "", fields |-> EmptyDict]
    ELSE [kind |-> "summary",
          banner |-> IF sheets_saved THEN CompleteBanners.saved
                     ELSE CompleteBanners.save_failed,
          fields |-> EmptyDict]

\* format_console_workday_data: "key: value" for every item of the record,
\* then the status line.
format_console_workday_data(workday_data, sheets_available, sheets_saved) ==
    IF ~TruthyDict(workday_data)
    THEN [kind |-> "unavailable", banner |-> "", fields |-> EmptyDict]
    ELSE [kind |-> "summary",
          banner |-> IF sheets_available /\ sheets_saved THEN ConsoleBanners.saved
                     ELSE IF sheets_available /\ ~sheets_saved
                     THEN ConsoleBanners.save_failed
                     ELSE ConsoleBanners.store_disabled,
          fields |-> [k \in DOMAIN workday_data.d |-> FStr(workday_data.d[k])]]

\* The lines of the Telegram summary and the default each uses.
CompleteFields ==
    [date |-> NotStated, project_name |-> NotStated, sub_project |-> NotStated,
     workers |-> NotStated, start_time |-> EmptyStr, end_time |-> EmptyStr,
     work_description |-> NotStated, additional_notes |-> NotStated]

\* format_complete_workday_data: the status line first, then the seven
\* lines of the record.
format_complete_workday_data(workday_data, sheets_available, sheets_saved) ==
    IF ~TruthyDict(workday_data)
    THEN [kind |-> "unavailable", banner |-> "", fields |-> EmptyDict]
    ELSE [kind |-> "summary",
          banner |-> IF sheets_available /\ sheets_saved THEN CompleteBanners.saved
                     ELSE IF sheets_available /\ ~sheets_saved
                     THEN CompleteBanners.save_failed
                     ELSE CompleteBanners.store_disabled,
          fields |-> [k \in DOMAIN CompleteFields |->
                         FStr(DictGet(workday_data.d, k, CompleteFields[k]))]]

\* Records handed to the presenters.
PresenterRecords ==
    SaveRecords \cup
    { PyDict(ObjectWithNulls(Str(<<"2", "1", "/", "0", "6", "/", "2", "0", "2", "5">>),
                             Str(<<"0", "8", ":", "0", "0">>))),
      PyDict(SparseObject(Str(<<"2", "1", "/", "0", "6", "/", "2", "0", "2", "5">>),
                          PyInt(<<"8">>))),
      PyDict(ObjectWithDay(EmptyStr, EmptyStr)) }

PresentInit ==
    /\ writers = <<>>
    /\ ex_in = [transcribed_text |-> None, reference_date |-> None,
                llm |-> LlmRaises, today |-> [ok |-> TRUE, y |-> 2025, m |-> 6, d |-> 22]]
    /\ ex_out = NotCalled
    /\ dm_built = FALSE
    /\ sheets_manager = FALSE
    /\ sheet = <<>>
    /\ save_log = <<>>
    /\ dm_init = NoDataManager
    /\ CronIdle
    /\ vp_in = NoCall
    /\ vp_out = NoCall
    /\ fmt_in \in [workday_data : PresenterRecords, sheets_available : BOOLEAN,
                   sheets_saved : BOOLEAN]
    /\ fmt_out = [console |-> NoCall, complete |-> NoCall]
    /\ live = NoCall
    /\ replies = <<>>
    /\ local = NoCall

FormatConsole ==
    /\ fmt_out.console = NoCall
    /\ fmt_out' = [fmt_out EXCEPT !.console =
                      format_console_workday_data(fmt_in.workday_data,
                          fmt_in.sheets_available, fmt_in.sheets_saved)]
    /\ UNCHANGED <<exVars, storeVars, cronVars, vp_in, vp_out, fmt_in, live,
                   replies, local, writers>>

FormatComplete ==
    /\ fmt_out.complete = NoCall
    /\ fmt_out' = [fmt_out EXCEPT !.complete =
                      format_complete_workday_data(fmt_in.workday_data,
                          fmt_in.sheets_available, fmt_in.sheets_saved)]
    /\ UNCHANGED <<exVars, storeVars, cronVars, vp_in, vp_out, fmt_in, live,
                   replies, local, writers>>

PresentNext == FormatConsole \/ FormatComplete

SpecPresent == PresentInit /\ [][PresentNext]_vars

\* The status the two flags stand for.
ThreeWayStatus(available, saved) ==
    IF ~available THEN "store_disabled"
    ELSE IF saved THEN "saved" ELSE "save_failed"

\* C15: for a non-empty record each presenter renders the banner of the
\* status the flags stand for: saved, save failed, or, whenever the store is
\* not available, store disabled.
C15_ThreeWayBanner ==
    (fmt_in # NoCall /\ TruthyDict(fmt_in.workday_data)) =>
        LET st == ThreeWayStatus(fmt_in.sheets_available, fmt_in.sheets_saved)
        IN  /\ fmt_out.console # NoCall => fmt_out.console.banner = ConsoleBanners[st]
            /\ fmt_out.complete # NoCall => fmt_out.complete.banner = CompleteBanners[st]

\* Store unavailable and saved = false, both presenters called on a record.
C15_Witness ==
    /\ fmt_in # NoCall
    /\ TruthyDict(fmt_in.workday_data)
    /\ ~fmt_in.sheets_available
    /\ ~fmt_in.sheets_saved
    /\ fmt_out.console # NoCall
    /\ fmt_out.complete # NoCall
    /\ fmt_out.console.banner = ConsoleBanners.store_disabled
    /\ fmt_out.complete.banner = CompleteBanners.store_disabled


----------------------------------------------------------------------------
(* Live mode (telegram_bot.py): the bot handles the updates polling hands  *)
(* it one at a time.  live is the bot and the position of the handler in   *)
(* handle_voice_message; replies is what reply_text has sent, in order.    *)
(* reply_text itself is taken to deliver what it is given.                 *)

MaxLive == 2

\* What the world does to one live message: get_file and download_to_drive,
\* the speech-to-text call, the model call and the Sheets calls.
LiveOutcomes ==
    { Outcome("get_file_raises", SttRaises, LlmRaises, "ok"),
      Outcome("download_raises", SttRaises, LlmRaises, "ok"),
      Outcome("ok", SttRaises, LlmRaises, "ok"),
      Outcome("ok", SomeTranscript, LlmRaises, "ok"),
      Outcome("ok", SomeTranscript, GoodReply, "ok"),
      Outcome("ok", SomeTranscript, GoodReply, "update_fails") }

\* The updates handed to handle_voice_message: with or without a voice
\* part, with or without a date.
LiveMessages == [voice : BOOLEAN, has_date : BOOLEAN]

\* The day of the live session, and update.message.date.strftime('%d/%m/%Y').
LiveToday == ClockDate(0)

LiveReferenceDate(msg) ==
    IF msg.has_date THEN Str(StrftimeDMY(LiveToday)) ELSE None

Reply(to, kind, body) == [to |-> to, kind |-> kind, body |-> body]

NoBody == [kind |-> "text", banner |-> "", fields |-> EmptyDict]

\* The arguments of a call of a presenter made by a handler.
PresenterCall(by, workday_data, sheets_available, sheets_saved) ==
    [by |-> by, workday_data |-> workday_data,
     sheets_available |-> sheets_available, sheets_saved |-> sheets_saved]

_handle_workday_data_silent_without_record(sm, rows, msg, workday_data, raw_transcription, api, by) ==
    IF TruthyDict(workday_data)
    THEN LET s == save_workday_data(sm, rows, workday_data, raw_transcription,
                                    LiveReferenceDate(msg), api, by)
         IN  [rows |-> s.rows, saved |-> s.returned,
              call |-> PresenterCall("live", s.caller,
                                     is_sheets_available(sm), s.returned),
              sent |-> <<Reply(by, "summary",
                               format_complete_workday_data(s.caller,
                                   is_sheets_available(sm), s.returned))>>]
    ELSE [rows |-> rows, saved |-> FALSE, call |-> NoCall, sent |-> <<>>]

\* TelegramBot._handle_workday_data: with a record, the save and the summary
\* of format_complete_workday_data; without one, the warning that the data
\* extraction is not available.
_handle_workday_data(sm, rows, msg, workday_data, raw_transcription, api, by) ==
    IF TruthyDict(workday_data)
    THEN LET s == save_workday_data(sm, rows, workday_data, raw_transcription,
                                    LiveReferenceDate(msg), api, by)
         IN  [rows |-> s.rows, saved |-> s.returned,
              call |-> PresenterCall("live", s.caller,
                                     is_sheets_available(sm), s.returned),
              sent |-> <<Reply(by, "summary",
                               format_complete_workday_data(s.caller,
                                   is_sheets_available(sm), s.returned))>>]
    ELSE [rows |-> rows, saved |-> FALSE, call |-> NoCall,
          sent |-> <<Reply(by, "extractor_unavailable", NoBody)>>]

LiveInit ==
    /\ writers = <<>>
    /\ ex_in = [transcribed_text |-> None, reference_date |-> None,
                llm |-> LlmRaises, today |-> [ok |-> TRUE, y |-> 2025, m |-> 6, d |-> 22]]
    /\ ex_out = NotCalled
    /\ dm_built = FALSE
    /\ sheets_manager = FALSE
    /\ sheet \in {<<>>, <<HeaderRow>>}
    /\ save_log = <<>>
    /\ dm_init = NoDataManager
    /\ CronIdle
    /\ vp_in = NoCall
    /\ vp_out = NoCall
    /\ fmt_in = NoCall
    /\ fmt_out = NoCall
    /\ live = [op |-> "bot", pc |-> "start", de |-> FALSE, n |-> 0,
               msg |-> [voice |-> FALSE, has_date |-> FALSE], oc |-> Unused,
               temp_file |-> FALSE, r |-> NoCall]
    /\ replies = <<>>
    /\ local = NoCall

LiveMode == live # NoCall

\* ShaliwoodBot.__init__: the VoiceProcessor (whose data extractor is None
\* when its construction raised) and the DataManager.
StartBot ==
    /\ LiveMode
    /\ live.pc = "start"
    /\ \E env \in DataManagerEnv, de \in BOOLEAN :
          LET dm == DataManager__init__(sheet, env[1], env[2], env[3])
          IN  /\ sheets_manager' = dm.sheets_manager
              /\ sheet' = dm.rows
              /\ dm_init' = dm.init
              /\ live' = [live EXCEPT !.pc = "idle", !.de = de]
    /\ dm_built' = TRUE
    /\ UNCHANGED <<exVars, save_log, cronVars, vp_in, vp_out, fmt_in, fmt_out,
                   replies, local, writers>>

\* The application calls handle_voice_message with the next update.
Receive ==
    /\ LiveMode
    /\ live.pc \in {"idle", "done"}
    /\ live.n < MaxLive
    /\ \E msg \in LiveMessages, oc \in LiveOutcomes :
          live' = [live EXCEPT !.pc = "received", !.n = @ + 1, !.msg = msg,
                               !.oc = oc, !.temp_file = FALSE, !.r = NoCall]
    /\ UNCHANGED <<exVars, storeVars, cronVars, vp_in, vp_out, fmt_in, fmt_out,
                   replies, local, writers>>

\* Lines 34-53: the validation, then get_file, the temporary file and
\* download_to_drive.  An update without a voice part returns at once.
Download ==
    /\ LiveMode
    /\ live.pc = "received"
    /\ live' = IF ~live.msg.voice THEN [live EXCEPT !.pc = "finally"]
               ELSE IF live.oc.download = "get_file_raises"
               THEN [live EXCEPT !.pc = "except"]
               ELSE IF live.oc.download = "download_raises"
               THEN [live EXCEPT !.pc = "except", !.temp_file = TRUE]
               ELSE [live EXCEPT !.pc = "downloaded", !.temp_file = TRUE]
    /\ UNCHANGED <<exVars, storeVars, cronVars, vp_in, vp_out, fmt_in, fmt_out,
                   replies, local, writers>>

\* Lines 62-67 on the result r of process_audio: the failure message and
\* return, or the transcript.
AfterProcessAudio(r) ==
    IF ~r.success
    THEN /\ replies' = Append(replies, Reply(live.n, "processing_failed", NoBody))
         /\ live' = [live EXCEPT !.pc = "finally", !.r = r]
    ELSE /\ replies' = Append(replies, Reply(live.n, "transcript",
                                   [kind |-> "text", banner |-> "",
                                    fields |-> [text |-> r.text]]))
         /\ live' = [live EXCEPT !.pc = "transcribed", !.r = r]

\* Lines 57-60: the call of process_audio, tabulated over what a live
\* message can pass (computed once, as PipelineResult is).
LivePipelineResult ==
    [x \in BOOLEAN \X {m.stt : m \in LiveOutcomes}
            \X {m.llm : m \in LiveOutcomes} \X LiveMessages |->
        process_audio(x[1], x[2], x[3], LiveToday, LiveReferenceDate(x[4]))] @@ <<>>

\* Lines 57-67.
ProcessAudioLive ==
    /\ LiveMode
    /\ live.pc = "downloaded"
    /\ AfterProcessAudio(LivePipelineResult[<<live.de, live.oc.stt, live.oc.llm,
                                              live.msg>>])
    /\ UNCHANGED <<exVars, storeVars, cronVars, vp_in, vp_out, fmt_in, fmt_out,
                   local, writers>>

AfterHandle(h) ==
    /\ sheet' = h.rows
    /\ replies' = replies \o h.sent
    /\ fmt_in' = (IF h.call = NoCall THEN fmt_in ELSE h.call)
    /\ live' = [live EXCEPT !.pc = "finally"]

\* Line 70.
HandleWorkdayData ==
    /\ LiveMode
    /\ live.pc = "transcribed"
    /\ AfterHandle(_handle_workday_data(sheets_manager, sheet, live.msg,
                       live.r.workday_data, live.r.text, live.oc.api, live.n))
    /\ UNCHANGED <<exVars, dm_built, sheets_manager, save_log, dm_init, cronVars,
                   vp_in, vp_out, fmt_out, local, writers>>

\* Lines 72-74: an exception of the download is answered with the error
\* message.
ExceptReply ==
    /\ LiveMode
    /\ live.pc = "except"
    /\ replies' = Append(replies, Reply(live.n, "processing_error", NoBody))
    /\ live' = [live EXCEPT !.pc = "finally"]
    /\ UNCHANGED <<exVars, storeVars, cronVars, vp_in, vp_out, fmt_in, fmt_out,
                   local, writers>>

\* Lines 75-82: the temporary file is removed.
Finally ==
    /\ LiveMode
    /\ live.pc = "finally"
    /\ live' = [live EXCEPT !.pc = "done", !.temp_file = finally_unlink(@)]
    /\ UNCHANGED <<exVars, storeVars, cronVars, vp_in, vp_out, fmt_in, fmt_out,
                   replies, local, writers>>

\* The steps of one run of the handler.
HandlerStep ==
    Download \/ ProcessAudioLive \/ HandleWorkdayData \/ ExceptReply \/ Finally

LiveNext == StartBot \/ Receive \/ HandlerStep

\* The program in one of its modes: the batch job of Next, which leaves live
\* untouched, or the live bot.
ModeInit == Init \/ LiveInit

BatchStep == ~LiveMode /\ Next

ModeNext == BatchStep \/ LiveNext

SpecModes == ModeInit /\ [][ModeNext]_vars

\* The event loop runs a started handler to its end.
SpecModesFair == SpecModes /\ WF_vars(HandlerStep)

\* The replies sent for the message in hand, by kind.
RECURSIVE KindsTo(_, _)
KindsTo(rs, to) ==
    IF rs = <<>> THEN <<>>
    ELSE (IF Head(rs).to = to THEN <<Head(rs).kind>> ELSE <<>>) \o KindsTo(Tail(rs), to)

HandlingVoice == LiveMode /\ live.pc = "received" /\ live.msg.voice

\* The handler has returned and the message was answered: by the transcript
\* and the summary, by a failure message and nothing else, or by the
\* transcript and the warning that no record could be extracted.
Answered ==
    /\ LiveMode
    /\ live.pc = "done"
    /\ KindsTo(replies, live.n) \in
          { <<"transcript", "summary">>, <<"processing_failed">>,
            <<"processing_error">>, <<"transcript", "extractor_unavailable">> }

\* C14: in live mode a voice message handed to the handler is eventually
\* answered, on every path: transcript then summary (whatever the store
\* did), or a failure message (download or transcription failed), or the
\* transcript and the extractor-unavailable warning.  In batch mode nothing
\* is ever sent.
C14_EveryVoiceMessageIsAnswered ==
    /\ HandlingVoice ~> Answered
    /\ [](~LiveMode => replies = <<>>)

\* A message answered by transcript and summary although the write failed.
C14_Witness ==
    /\ LiveMode
    /\ live.pc = "done"
    /\ live.msg.voice
    /\ live.oc.api = "update_fails"
    /\ is_sheets_available(sheets_manager)
    /\ KindsTo(replies, live.n) = <<"transcript", "summary">>
    /\ replies[Len(replies)].body.banner = CompleteBanners.save_failed



----------------------------------------------------------------------------
(* The statistics a batch run returns.                                     *)

\* C16: the statistics of every returned batch run carry end_time and
\* duration (stats.ended), whatever the run's path: empty fetch, normal
\* completion or a run that ended on an error.
C16_EveryStatsCarriesEndAndDuration == run.n > 0 => run.stats.ended


----------------------------------------------------------------------------
(* Normalization applied to its own result.                                *)

\* v is a text of the shape HH:MM naming a time of day.
IsHHMM(v) ==
    /\ v.t = "str"
    /\ Len(v.s) = 5
    /\ AllDigits(<<v.s[1], v.s[2], v.s[4], v.s[5]>>)
    /\ StrptimeTime(v.s, time_formats[1]).ok

\* The record in ex_out was produced by _validate_and_clean_data.
ProducedByValidator ==
    /\ ~ex_out.raised
    /\ \/ ex_out.op = "validate"
       \/ /\ ex_out.op = "extract"
          /\ ~ExtractionFails(ex_in.transcribed_text, ex_in.llm)

\* The values the validator was given and returned for field f.
ValuesOf(f) == { DictGet(ex_in.llm.body.o, f, EmptyStr), ex_out.val[f] }

\* C17: the validator applied to a record it produced returns the same
\* record; every DD/MM/YYYY text it met (the record's date is one) is a
\* fixed point of _format_date, and every HH:MM text it met is a fixed
\* point of _format_time.
C17_NormalizationIsIdempotent ==
    ProducedByValidator =>
        /\ _validate_and_clean_data(JsonObj(ex_out.val)) = Returned(ex_out.val)
        /\ IsDDMMYYYY(ex_out.val["date"])
        /\ \A v \in ValuesOf("date") : IsDDMMYYYY(v) => _format_date(v) = v
        /\ \A f \in {"start_time", "end_time"} :
              \A v \in ValuesOf(f) : IsHHMM(v) => _format_time(v) = v

\* A record whose date and start time the validator had to rewrite.
C17_Witness ==
    /\ ProducedByValidator
    /\ ex_out.op = "validate"
    /\ IsHHMM(ex_out.val["start_time"])
    /\ DictGet(ex_in.llm.body.o, "date", EmptyStr) # ex_out.val["date"]
    /\ DictGet(ex_in.llm.body.o, "start_time", EmptyStr) # ex_out.val["start_time"]


----------------------------------------------------------------------------
(* A reply whose date cannot be used.                                      *)

\* The reply parsed as a JSON object and the transcript was not blank.
ReplyIsObject ==
    /\ ~BlankTranscript(ex_in.transcribed_text)
    /\ ex_in.llm.kind = "content"
    /\ ~_parse_json_response(ex_in.llm).raised
    /\ _parse_json_response(ex_in.llm).val.j = "obj"

\* The date of the reply is empty (or absent), or a text none of
\* date_formats parses.
DateUnusable ==
    LET d == DictGet(ex_in.llm.body.o, "date", EmptyStr)
    IN  /\ d.t = "str"
        /\ FirstDateFormat(d.s, 1) = 0

C20_WitnessEmptyDate ==
    /\ ex_out.op = "extract"
    /\ ReplyIsObject
    /\ DictGet(ex_in.llm.body.o, "date", None) = EmptyStr
    /\ ex_out.val["work_description"] = ex_in.transcribed_text


----------------------------------------------------------------------------
(* Local-file mode (main.py, local_processor.py): one audio file is        *)
(* processed and the result printed.  local is the bot, the arguments and  *)
(* what process_audio_file printed and returned.                           *)

\* What the world does to the file: the speech-to-text call, the model call
\* and the Sheets calls.
LocalOutcomes ==
    { Outcome("ok", SttRaises, LlmRaises, "ok"),
      Outcome("ok", SomeTranscript, LlmRaises, "ok"),
      Outcome("ok", SomeTranscript, GoodReply, "ok"),
      Outcome("ok", SomeTranscript, GoodReply, "update_fails") }

\* Lines 43-45: the call of process_audio with the file's creation date as
\* reference date, tabulated over the processor's data extractor and the
\* outcomes of the two model calls.
LocalPipelineResult ==
    [x \in BOOLEAN \X {m.stt : m \in LocalOutcomes} \X {m.llm : m \in LocalOutcomes} |->
        process_audio(x[1], x[2], x[3], LiveToday, Str(StrftimeDMY(LiveToday)))] @@ <<>>

\* format_hebrew_for_console: an empty text is returned as it is; any other
\* text is put in its display form (each Hebrew word with its characters in
\* reverse order, the words joined by single spaces), which the field rtl
\* marks.
format_hebrew_for_console(text) ==
    IF text.s = <<>> THEN text ELSE [t |-> "str", s |-> text.s, rtl |-> TRUE]

\* format_hebrew_data_for_console: a falsy record is returned as it is; the
\* str values of any other are put in display form in a new dict.
format_hebrew_data_for_console(data) ==
    IF ~TruthyDict(data)
    THEN data
    ELSE PyDict([k \in DOMAIN data.d |->
                    IF data.d[k].t = "str"
                    THEN format_hebrew_for_console(data.d[k])
                    ELSE data.d[k]])

\* LocalProcessor._handle_workday_data: with a record, the save and the
\* console summary of the display form; without one, the
\* extractor-unavailable line.
_handle_workday_data_local(sm, rows, workday_data, raw_transcription, api) ==
    IF TruthyDict(workday_data)
    THEN LET s == save_workday_data(sm, rows, workday_data, raw_transcription,
                                    Str(StrftimeDMY(LiveToday)), api, 1)
         IN  [rows |-> s.rows, attempted |-> s.attempted,
              call |-> PresenterCall("local",
                                     format_hebrew_data_for_console(s.caller),
                                     is_sheets_available(sm), s.returned),
              printed |-> <<format_console_workday_data(
                                format_hebrew_data_for_console(s.caller),
                                is_sheets_available(sm), s.returned).banner>>]
    ELSE [rows |-> rows, attempted |-> FALSE, call |-> NoCall,
          printed |-> <<"Data extractor not available">>]

\* Lines 47-68 on the result r of process_audio.
AfterLocalPipeline(r, h, transcribe_only) ==
    IF ~r.success
    THEN [returned |-> FALSE, calls |-> r.calls, rows |-> h.rows, attempted |-> FALSE,
          call |-> NoCall,
          printed |-> <<"Error processing audio file">>]
    ELSE IF transcribe_only
    THEN [returned |-> TRUE, calls |-> r.calls, rows |-> h.rows, attempted |-> FALSE,
          call |-> NoCall,
          printed |-> <<"Transcription", "Skipping data extraction (transcribe-only mode)">>]
    ELSE [returned |-> TRUE, calls |-> r.calls, rows |-> h.after.rows,
          attempted |-> h.after.attempted, call |-> h.after.call,
          printed |-> <<"Transcription">> \o h.after.printed]

\* process_audio_file: a missing file returns False at once; else the
\* pipeline runs, the transcript is printed, and only then transcribe_only
\* decides whether _handle_workday_data is called.
process_audio_file(sm, rows, de, oc, file_exists, transcribe_only) ==
    IF ~file_exists
    THEN [returned |-> FALSE, calls |-> <<>>, rows |-> rows, attempted |-> FALSE,
          call |-> NoCall, printed |-> <<>>]
    ELSE AfterLocalPipeline(
             LocalPipelineResult[<<de, oc.stt, oc.llm>>],
             [rows |-> rows,
              after |-> _handle_workday_data_local(sm, rows,
                            LocalPipelineResult[<<de, oc.stt, oc.llm>>].workday_data,
                            LocalPipelineResult[<<de, oc.stt, oc.llm>>].text, oc.api)],
             transcribe_only)

LocalInit ==
    /\ writers = <<>>
    /\ ex_in = [transcribed_text |-> None, reference_date |-> None,
                llm |-> LlmRaises, today |-> [ok |-> TRUE, y |-> 2025, m |-> 6, d |-> 22]]
    /\ ex_out = NotCalled
    /\ dm_built = FALSE
    /\ sheets_manager = FALSE
    /\ sheet \in {<<>>, <<HeaderRow>>}
    /\ save_log = <<>>
    /\ dm_init = NoDataManager
    /\ CronIdle
    /\ vp_in = NoCall
    /\ vp_out = NoCall
    /\ fmt_in = NoCall
    /\ fmt_out = NoCall
    /\ live = NoCall
    /\ replies = <<>>
    /\ local = [op |-> "local", pc |-> "start", de |-> FALSE,
                file_exists |-> FALSE, transcribe_only |-> FALSE, oc |-> Unused,
                rows_before |-> <<>>,
                out |-> [returned |-> FALSE, calls |-> <<>>, rows |-> <<>>,
                         attempted |-> FALSE, call |-> NoCall, printed |-> <<>>]]

\* main up to the call of process_local_file: the arguments are parsed and
\* ShaliwoodBot(disable_sheets=args.no_sheets) constructed.
StartLocal ==
    /\ local # NoCall
    /\ local.pc = "start"
    /\ \E env \in DataManagerEnv, de \in BOOLEAN, file_exists \in BOOLEAN,
          transcribe_only \in BOOLEAN, oc \in LocalOutcomes :
          LET dm == DataManager__init__(sheet, env[1], env[2], env[3])
          IN  /\ sheets_manager' = dm.sheets_manager
              /\ sheet' = dm.rows
              /\ dm_init' = dm.init
              /\ local' = [local EXCEPT !.pc = "built", !.de = de,
                                        !.file_exists = file_exists,
                                        !.transcribe_only = transcribe_only,
                                        !.oc = oc, !.rows_before = dm.rows]
    /\ dm_built' = TRUE
    /\ UNCHANGED <<exVars, save_log, cronVars, vp_in, vp_out, fmt_in, fmt_out,
                   live, replies, writers>>

ProcessedFile(out) ==
    /\ sheet' = out.rows
    /\ fmt_in' = (IF out.call = NoCall THEN fmt_in ELSE out.call)
    /\ local' = [local EXCEPT !.pc = "done", !.out = out]

\* bot.process_local_file(args.file, transcribe_only, output_file).
ProcessLocalFile ==
    /\ local # NoCall
    /\ local.pc = "built"
    /\ ProcessedFile(process_audio_file(sheets_manager, sheet, local.de, local.oc,
                                        local.file_exists, local.transcribe_only))
    /\ UNCHANGED <<exVars, dm_built, sheets_manager, save_log, dm_init, cronVars,
                   vp_in, vp_out, fmt_out, live, replies, writers>>

LocalNext == StartLocal \/ ProcessLocalFile

SpecLocal == LocalInit /\ [][LocalNext]_vars

Made(calls, c) == \E i \in 1..Len(calls) : calls[i] = c

\* C18: with transcribe_only set, processing a file makes no call of the
\* extractor or of the language model and writes nothing to the sheet.
C18_TranscribeOnlySkipsExtraction ==
    (local # NoCall /\ local.pc = "done" /\ local.transcribe_only) =>
        /\ ~Made(local.out.calls, "extractor")
        /\ ~Made(local.out.calls, "llm")
        /\ ~local.out.attempted
        /\ sheet = local.rows_before


----------------------------------------------------------------------------
(* More properties of the batch job.                                       *)

\* C21: every fetch asks for the updates from offset + 1 on when the
\* processor's offset is above 0 and sends no offset (0 here) when it is 0,
\* never receives more than PageLimit updates, and the offset it starts from
\* is the one the previous run of the same processor left (0 on a new one).
C21_FetchBoundFollowsStoredOffset ==
    /\ [](run.n > 0 =>
            /\ run.offset = (IF run.start_offset > 0 THEN run.start_offset + 1 ELSE 0)
            /\ Len(run.page) <= PageLimit
            /\ \A k \in DOMAIN run.page :
                  run.offset > 0 => run.page[k].update_id >= run.offset)
    /\ [][run'.n # run.n =>
            run'.start_offset = (IF inst' = inst THEN last_processed_update_id ELSE 0)]_vars

\* A second run of one processor that fetched with the bound offset + 1.
C21_Witness ==
    /\ run.n = 2
    /\ run.inst = 1
    /\ run.fetch = "ok"
    /\ run.start_offset > 0
    /\ run.offset = run.start_offset + 1
    /\ last_processed_update_id > run.start_offset


\* The sheets a run that begins in this step can start from: the sheet as it
\* is on the processor that exists, or as the construction of a new
\* DataManager leaves it.
SheetAtRunStart ==
    IF inst' = inst THEN {sheet}
    ELSE { DataManager__init__(sheet, env[1], env[2], env[3]).rows :
              env \in DataManagerEnv }

\* The step is a batch run whose fetch failed.
FailedFetchRun == run'.n # run.n /\ run'.fetch # "ok"

\* C22: a run whose fetch fails goes over no update, runs no message through
\* the pipeline, writes nothing to the sheet, confirms nothing at Telegram,
\* leaves the processor's offset as it was (0 on a new processor) and
\* returns its statistics with no message counted.
C22_FailedFetchIsAnEmptyRun ==
    [][FailedFetchRun =>
          /\ run'.page = <<>>
          /\ run'.updates = <<>>
          /\ run'.outcomes = <<>>
          /\ run'.stats.total_messages = 0
          /\ run'.stats.voice_messages = 0
          /\ run'.stats.processed_voice = 0
          /\ hist' = hist
          /\ sheet' \in SheetAtRunStart
          /\ tg_pending' = tg_pending
          /\ last_processed_update_id' =
                (IF inst' = inst THEN last_processed_update_id ELSE 0)]_vars

\* A run on a processor with an offset above 0 and a voice message pending
\* met a TelegramError, and message and offset are as before.
C22_Witness ==
    /\ run.n = 2
    /\ run.inst = 1
    /\ run.fetch = "telegram_error"
    /\ run.start_offset > 0
    /\ last_processed_update_id = run.start_offset
    /\ \E k \in DOMAIN tg_pending :
          tg_pending[k].voice /\ tg_pending[k].update_id > run.start_offset


\* The step is a batch run.
BatchRun == run'.n # run.n

\* The history entries the run of this step added.
NewHist == SubSeq(hist', Len(hist) + 1, Len(hist'))

\* The update is less than 24 hours old when the run takes place.
YoungerThanWindow(u) == (now - u.date) * 12 < WindowHours

\* The positions of run'.updates whose message went through the pipeline.
PipelinePositions ==
    SelectSeq([k \in 1..Len(run'.updates) |-> k],
              LAMBDA k : run'.outcomes[k] \in {"processed", "failed"})

\* C23: a batch run goes over the fetched updates that are less than 24
\* hours old, in the order fetched, and counts them in total_messages; only
\* those with a voice part are counted as voice messages, can reach the
\* pipeline (in that order) or be saved or counted as an error; an update
\* of another type is passed over, and an update outside the window is not
\* gone over at all.
C23_OnlyVoiceInWindowIsProcessed ==
    [][(BatchRun /\ run'.fetch = "ok") =>
          /\ run'.updates = SelectSeq(run'.page, YoungerThanWindow)
          /\ Len(run'.updates) > 0 =>
                /\ run'.stats.total_messages = Len(run'.updates)
                /\ Len(run'.outcomes) = Len(run'.updates)
                /\ run'.stats.voice_messages =
                      Len(SelectSeq(run'.updates, LAMBDA u : u.voice))
                /\ \A k \in DOMAIN run'.updates :
                      (run'.outcomes[k] = "other") <=> ~run'.updates[k].voice
                /\ Ids(NewHist) =
                      [k \in DOMAIN PipelinePositions |->
                          run'.updates[PipelinePositions[k]].update_id]
                /\ run'.stats.errors =
                      Len(SelectSeq(run'.outcomes, LAMBDA o : o = "raised"))
          /\ Len(run'.updates) = 0 => (NewHist = <<>> /\ sheet' \in SheetAtRunStart)]_vars

\* A run fetched an update outside the window and a voice message inside
\* it, and only the voice message went through the pipeline.
C23_Witness ==
    /\ run.n > 0
    /\ run.fetch = "ok"
    /\ Len(run.page) > Len(run.updates)
    /\ \E k \in DOMAIN run.updates : run.outcomes[k] = "processed"
    /\ run.stats.errors = 0

\* A run went over a message of another type and a voice message.
C23_WitnessOtherType ==
    /\ run.n > 0
    /\ run.stats.total_messages = 2
    /\ run.stats.voice_messages = 1
    /\ \E k \in DOMAIN run.updates : run.outcomes[k] = "other"
    /\ \E k \in DOMAIN run.updates : run.outcomes[k] = "processed"


\* The number of messages of the latest run with outcome o.
CountOutcome(o) == Len(SelectSeq(run.outcomes, LAMBDA x : x = o))

\* C26 as stated: at the end of every batch run
\* processed_voice + errors <= voice_messages <= total_messages.
C26_CountsAreOrdered ==
    run.n > 0 =>
        /\ run.stats.processed_voice + run.stats.errors <= run.stats.voice_messages
        /\ run.stats.voice_messages <= run.stats.total_messages

\* C26 amended: the order of the counts holds at the end of every batch run
\* whose fetch raised no exception other than a TelegramError; there errors
\* is the number of voice messages that raised, processed_voice the number
\* whose pipeline succeeded, and a message whose pipeline failed without
\* raising is in neither.  A run whose fetch raised another exception has
\* errors = 1 and every other count 0.
C26_CountsAreOrderedUnlessFetchRaised ==
    run.n > 0 =>
        IF run.fetch = "other_error"
        THEN /\ run.stats.errors = 1
             /\ run.stats.processed_voice = 0
             /\ run.stats.voice_messages = 0
             /\ run.stats.total_messages = 0
        ELSE /\ run.stats.processed_voice + run.stats.errors <= run.stats.voice_messages
             /\ run.stats.voice_messages <= run.stats.total_messages
             /\ run.stats.errors = CountOutcome("raised")
             /\ run.stats.processed_voice = CountOutcome("processed")
             /\ run.stats.voice_messages =
                   CountOutcome("raised") + CountOutcome("processed") + CountOutcome("failed")

\* Two voice messages: the pipeline of one fails without raising, the other
\* raises; one error, nothing processed.
C26_Witness ==
    /\ run.n > 0
    /\ run.fetch = "ok"
    /\ CountOutcome("failed") = 1
    /\ CountOutcome("raised") = 1
    /\ run.stats.voice_messages = 2
    /\ run.stats.errors = 1
    /\ run.stats.processed_voice = 0


\* The entries of h whose message was saved / whose pipeline succeeded.
Saved(h) == SelectSeq(h, LAMBDA e : e.saved)

Succeeded(h) == SelectSeq(h, LAMBDA e : e.success)

\* C27: in every batch run the messages saved are among those counted as
\* processed; a message whose pipeline succeeded is counted as processed
\* and recorded whether or not its save succeeded, and errors counts only
\* the messages that raised; the offset ends at or above every message the
\* run went over, and no processor takes the same message twice.
C27_SaveFailureStillCountsAsProcessed ==
    /\ [][(BatchRun /\ run'.fetch = "ok" /\ run'.updates # <<>>) =>
             /\ Len(Saved(NewHist)) <= run'.stats.processed_voice
             /\ run'.stats.processed_voice = Len(Succeeded(NewHist))
             /\ run'.stats.errors =
                   Len(SelectSeq(run'.outcomes, LAMBDA o : o = "raised"))
             /\ \A k \in DOMAIN NewHist :
                   (NewHist[k].success /\ ~NewHist[k].saved) =>
                       last_processed_update_id' >= NewHist[k].update_id
             /\ \A k \in DOMAIN run'.updates :
                   last_processed_update_id' >= run'.updates[k].update_id]_vars
    /\ [](\A i, j \in DOMAIN hist :
             (i < j /\ hist[i].inst = hist[j].inst) =>
                 hist[i].update_id # hist[j].update_id)

\* A processor counted a message as processed although its save failed, and
\* its next run started above that message and left it unsaved.
C27_Witness ==
    /\ run.n = 2
    /\ run.inst = 1
    /\ run.fetch = "ok"
    /\ \E k \in DOMAIN hist :
          /\ hist[k].run = 1
          /\ hist[k].success
          /\ ~hist[k].saved
          /\ run.start_offset >= hist[k].update_id
          /\ \A r \in DOMAIN sheet : sheet[r].by # hist[k].update_id


----------------------------------------------------------------------------
(* The audit copy of process_audio (save_for_testing).                     *)

\* What making the copy can meet: it works, the directory cannot be made,
\* the copy fails.
AuditOutcomes == {"ok", "mkdir_raises", "copy_raises"}

_save_voice_for_testing_raises(audit) ==
    [raised |-> audit # "ok", copied |-> audit = "ok"]

\* _save_voice_for_testing: every exception is caught and logged.
_save_voice_for_testing(audit) ==
    [raised |-> FALSE, copied |-> audit = "ok"]

\* Lines 44-63 on the result r of the rest of the pipeline and the result a
\* of the audit copy: the copy comes first, and an exception of it would
\* end in the outer except clause.
WithAudit(r, save_for_testing, a) ==
    IF ~save_for_testing THEN r @@ [copied |-> FALSE]
    ELSE IF a.raised
    THEN [success |-> FALSE, text |-> None, workday_data |-> None,
          calls |-> <<"audit">>, copied |-> FALSE]
    ELSE [r EXCEPT !.calls = <<"audit">> \o @] @@ [copied |-> a.copied]

\* process_audio with its save_for_testing argument.
process_audio_for_testing(de, stt, llm, today, reference_date, save_for_testing, audit) ==
    WithAudit(process_audio(de, stt, llm, today, reference_date),
              save_for_testing, _save_voice_for_testing(audit))

AuditInit ==
    /\ writers = <<>>
    /\ ex_in = [transcribed_text |-> None, reference_date |-> None,
                llm |-> LlmRaises, today |-> [ok |-> TRUE, y |-> 2025, m |-> 6, d |-> 22]]
    /\ ex_out = NotCalled
    /\ dm_built = FALSE
    /\ sheets_manager = FALSE
    /\ sheet = <<>>
    /\ save_log = <<>>
    /\ dm_init = NoDataManager
    /\ CronIdle
    /\ vp_in \in [de : BOOLEAN, stt : SttOutcomes, llm : {LlmRaises, GoodReply},
                  today : {LiveToday}, reference_date : ReferenceDates]
    /\ vp_out = NoCall
    /\ fmt_in = NoCall
    /\ fmt_out = NoCall
    /\ live = NoCall
    /\ replies = <<>>
    /\ local = NoCall

Audited(save_for_testing, audit, result) ==
    vp_out' = [op |-> "process_audio", save_for_testing |-> save_for_testing,
               audit |-> audit, result |-> result]

\* One call of process_audio, the caller deciding save_for_testing.
ProcessAudioForTesting ==
    /\ vp_out = NoCall
    /\ \E save_for_testing \in BOOLEAN, audit \in AuditOutcomes :
          Audited(save_for_testing, audit,
                  process_audio_for_testing(vp_in.de, vp_in.stt, vp_in.llm, vp_in.today,
                                            vp_in.reference_date, save_for_testing, audit))
    /\ UNCHANGED <<exVars, storeVars, cronVars, vp_in, fmt_in, fmt_out, live,
                   replies, local, writers>>

AuditNext == ProcessAudioForTesting

SpecAudit == AuditInit /\ [][AuditNext]_vars

\* (success, text, workday_data) of a result.
Triple(r) == <<r.success, r.text, r.workday_data>>

\* C24: with save_for_testing set the audit copy is attempted once, as the
\* first step, whatever transcription and extraction do afterwards, and the
\* triple returned is the one returned when the copy works; without the
\* flag no copy is attempted.
C24_AuditCopyNeverChangesTheResult ==
    vp_out # NoCall =>
        LET calls == vp_out.result.calls
            audits == SelectSeq(calls, LAMBDA c : c = "audit")
        IN  /\ Len(audits) = (IF vp_out.save_for_testing THEN 1 ELSE 0)
            /\ vp_out.save_for_testing =>
                  /\ calls[1] = "audit"
                  /\ Made(calls, "stt")
            /\ ~vp_out.save_for_testing => ~vp_out.result.copied
            /\ Triple(vp_out.result) =
                  Triple(process_audio_for_testing(vp_in.de, vp_in.stt, vp_in.llm,
                             vp_in.today, vp_in.reference_date, TRUE, "ok"))

\* The copy failed and the pipeline went on to a record.
C24_Witness ==
    /\ vp_out # NoCall
    /\ vp_out.save_for_testing
    /\ vp_out.audit = "copy_raises"
    /\ ~vp_out.result.copied
    /\ vp_out.result.success
    /\ vp_out.result.calls = <<"audit", "stt", "extractor", "llm">>

\* The copy was made although transcription failed afterwards.
C24_WitnessTranscriptionFailed ==
    /\ vp_out # NoCall
    /\ vp_out.save_for_testing
    /\ vp_out.result.copied
    /\ ~vp_out.result.success
    /\ vp_out.result.calls = <<"audit", "stt">>


----------------------------------------------------------------------------
(* The temporary audio file of a handler.                                  *)

C25_WitnessLive ==
    /\ LiveMode
    /\ live.pc = "done"
    /\ live.msg.voice
    /\ live.oc.download = "download_raises"
    /\ ~live.temp_file

-----------------------------------------------------------------------------
(* The three entry points together, and the flags every handler derives.   *)

LocalMode == local # NoCall

\* One process of the program: the batch job (cron_processor), the live bot
\* (main without --file) or the local file processor (main --file).
PathInit == Init \/ LiveInit \/ LocalInit

BatchPathStep == ~LiveMode /\ ~LocalMode /\ Next

PathNext == BatchPathStep \/ LiveNext \/ LocalNext

SpecPaths == PathInit /\ [][PathNext]_vars

\* C28: whenever a handler has called a presenter, the sheets_saved it passed
\* implies the sheets_available it passed; and every message the batch
\* processor in hand has saved was saved with a store available.  The pair
\* (available = FALSE, saved = TRUE) is never computed.
C28_SavedImpliesAvailable ==
    /\ fmt_in # NoCall => (fmt_in.sheets_saved => fmt_in.sheets_available)
    /\ \A k \in 1..Len(hist) :
           (hist[k].inst = inst /\ hist[k].saved) => is_sheets_available(sheets_manager)

\* The live handler has called the presenter with the store unavailable and
\* nothing saved; the local handler after a save; a batch message saved.
C28_Witness ==
    /\ LiveMode
    /\ fmt_in # NoCall
    /\ fmt_in.by = "live"
    /\ ~fmt_in.sheets_available
    /\ ~fmt_in.sheets_saved

C28_WitnessLocal ==
    /\ LocalMode
    /\ fmt_in # NoCall
    /\ fmt_in.by = "local"
    /\ fmt_in.sheets_available
    /\ fmt_in.sheets_saved

C28_WitnessBatch ==
    \E k \in 1..Len(hist) : hist[k].inst = inst /\ hist[k].saved


-----------------------------------------------------------------------------
(* The record a handler holds across the save.                             *)

\* The handler in hand has got a record from the pipeline and has gone
\* through _handle_workday_data with it.
LiveHandledRecord ==
    /\ LiveMode
    /\ live.pc \in {"finally", "done"}
    /\ live.r # NoCall
    /\ live.r.success
    /\ TruthyDict(live.r.workday_data)

LocalHandledRecord ==
    /\ LocalMode
    /\ local.pc = "done"
    /\ local.out.call # NoCall

\* C29: the record a handler passes to the presenter after save_workday_data
\* is the record the pipeline returned (for the local handler, its display
\* form), whether the save succeeded, failed or found no store: it has gained
\* no raw_transcription, recording_date or status.  Every row a save has
\* written carries the pending-approval status in column L.
C29_SaveLeavesTheCallersRecord ==
    /\ LiveHandledRecord =>
          /\ fmt_in # NoCall
          /\ fmt_in.by = "live"
          /\ fmt_in.workday_data = live.r.workday_data
    /\ LocalHandledRecord =>
          /\ fmt_in = local.out.call
          /\ fmt_in.workday_data =
                format_hebrew_data_for_console(
                    LocalPipelineResult[<<local.de, local.oc.stt, local.oc.llm>>].workday_data)
    /\ \A i \in 1..Len(sheet) :
          sheet[i].by # 0 => sheet[i].cells[12] = PendingApproval

\* The live handler has saved a record together with a transcript: the row
\* written carries the transcript and the status, the record passed on does
\* not carry the status.
C29_Witness ==
    /\ LiveHandledRecord
    /\ fmt_in # NoCall
    /\ fmt_in.sheets_saved
    /\ Truthy(live.r.text)
    /\ "status" \notin DOMAIN fmt_in.workday_data.d
    /\ \E i \in 1..Len(sheet) :
          /\ sheet[i].by = live.n
          /\ sheet[i].cells[11] = live.r.text
          /\ sheet[i].cells[12] = PendingApproval

\* The same with a write the store rejected, and with no store.
C29_WitnessSaveFailed ==
    /\ LiveHandledRecord
    /\ fmt_in # NoCall
    /\ fmt_in.sheets_available
    /\ ~fmt_in.sheets_saved

C29_WitnessNoStore ==
    /\ LiveHandledRecord
    /\ fmt_in # NoCall
    /\ ~fmt_in.sheets_available


-----------------------------------------------------------------------------
(* Two processes writing to the same sheet.  Each call of                  *)
(* add_workday_summary is two requests to the Sheets API, the read of      *)
(* column A and the update of one row; the requests of different processes *)
(* reach the sheet in any order.                                           *)

\* The processes: 1 the live bot, 2 the batch job.
Writers == {1, 2}

\* The calls of add_workday_summary one process makes.
MaxWrites == 2

\* The enriched records save_workday_data hands over; each has a day, so
\* column A of a written row is never empty.
WriterRecords ==
    { DictPut(NormalRecord, "status", PendingApproval),
      DictPut(DictPut(NormalRecord, "raw_transcription",
                      Str(<<"avadnu", " ", "bagesher">>)),
              "status", PendingApproval) }

\* Lines 131-146: the row in column order, '' for an absent key.
RowData(workday_data) ==
    [i \in 1..12 |-> DictGet(workday_data, HEBREW_COLUMNS[i],
                             IF i = 12 THEN PendingApproval ELSE EmptyStr)]

\* Lines 149-155: next_row from the read of column A.
NextRow(rows) == Len(ColumnA(rows)) + 1

\* The number that marks the rows of call k of process w.
WriteId(w, k) == (w - 1) * MaxWrites + k

IdleWriter ==
    [pc |-> "idle", n |-> 0, row_data |-> RowData(EmptyDict), api |-> "ok",
     next_row |-> 0, returned |-> <<>>]

WritersInit ==
    /\ writers = [w \in Writers |-> IdleWriter]
    /\ ex_in = [transcribed_text |-> None, reference_date |-> None,
                llm |-> LlmRaises, today |-> [ok |-> TRUE, y |-> 2025, m |-> 6, d |-> 22]]
    /\ ex_out = NotCalled
    /\ dm_built = TRUE
    /\ sheets_manager = TRUE
    /\ sheet \in {<<>>, <<HeaderRow>>}
    /\ save_log = <<>>
    /\ dm_init = NoDataManager
    /\ CronIdle
    /\ AppIdle

\* add_workday_summary is entered: row_data is built from the record.
WriterCall(w) ==
    /\ writers # <<>>
    /\ writers[w].pc \in {"idle", "done"}
    /\ writers[w].n < MaxWrites
    /\ \E workday_data \in WriterRecords, api \in ApiOutcomes :
          writers' = [writers EXCEPT ![w] =
                         [@ EXCEPT !.pc = "called", !.n = @ + 1,
                                   !.row_data = RowData(workday_data),
                                   !.api = api, !.next_row = 0]]
    /\ UNCHANGED <<exVars, storeVars, cronVars, appVars>>

\* The first request: column A is read and next_row computed from what the
\* sheet holds at that moment.  An HttpError is raised as StorageError,
\* which save_workday_data turns into False.
WriterRead(w) ==
    /\ writers # <<>>
    /\ writers[w].pc = "called"
    /\ writers' = [writers EXCEPT ![w] =
                      IF @.api = "get_fails"
                      THEN [@ EXCEPT !.pc = "done", !.returned = Append(@, FALSE)]
                      ELSE [@ EXCEPT !.pc = "read", !.next_row = NextRow(sheet)]]
    /\ UNCHANGED <<exVars, storeVars, cronVars, appVars>>

\* The second request: row next_row is written, whatever the sheet holds
\* there by now, and True returned.
WriterWrite(w) ==
    /\ writers # <<>>
    /\ writers[w].pc = "read"
    /\ IF writers[w].api = "update_fails"
       THEN /\ sheet' = sheet
            /\ writers' = [writers EXCEPT ![w] =
                              [@ EXCEPT !.pc = "done", !.returned = Append(@, FALSE)]]
       ELSE /\ sheet' = UpdateRow(sheet, writers[w].next_row, writers[w].row_data,
                                  WriteId(w, writers[w].n))
            /\ writers' = [writers EXCEPT ![w] =
                              [@ EXCEPT !.pc = "done", !.returned = Append(@, TRUE)]]
    /\ UNCHANGED <<exVars, dm_built, sheets_manager, save_log, dm_init, cronVars,
                   appVars>>

WritersNext == \E w \in Writers : WriterCall(w) \/ WriterRead(w) \/ WriterWrite(w)

SpecWriters == WritersInit /\ [][WritersNext]_vars

\* The calls that have returned True, by their numbers.
ReturnedTrue ==
    UNION { { WriteId(w, k) : k \in { j \in 1..Len(writers[w].returned) :
                                        writers[w].returned[j] } } : w \in Writers }

\* The calls whose row the sheet holds.
RowsHeld == { sheet[i].by : i \in 1..Len(sheet) } \ {0}

\* C30: whatever the order of the two processes' requests, every call of
\* add_workday_summary that has returned True has its record in a row of
\* its own: no write has overwritten another.
C30_NoWriteIsOverwritten ==
    writers # <<>> => ReturnedTrue \subseteq RowsHeld

\* Both processes have read column A before either wrote, computed the same
\* next_row, and both writes were accepted.
C30_LostWrite ==
    /\ writers # <<>>
    /\ \A w \in Writers : writers[w].pc = "done" /\ writers[w].n = 1
    /\ \A w \in Writers : writers[w].returned = <<TRUE>>
    /\ writers[1].next_row = writers[2].next_row
    /\ Cardinality(RowsHeld) = 1

====
